---- MODULE Spec2Model ----
(***************************************************************************)
(* The per-frame simulation core of Unit2 (src/Unit2/src/main.rs and       *)
(* src/Unit2/src/enemy_ai.rs): the sprite-slot registry, projectiles,      *)
(* damage, the enemy AI and the game-state machine.                        *)
(*                                                                         *)
(* One step of Frame is one RedrawRequested event: the routine of the      *)
(* current state, run to its end, followed by Input::next_frame.           *)
(*                                                                         *)
(* Representation                                                          *)
(*  - f32 values are integers.  Positions, sizes and screen limits are the *)
(*    pixel values of the source.  Speeds are coarser than the source's    *)
(*    (PlayerSpeed, PlayerShotSpeed, EnemyShotSpeed) so that a flight      *)
(*    lasts a few frames.                                                  *)
(*  - The level table (health pools, AI period) is held in `levels`: it is *)
(*    SourceLevels (the values of load_level_1 / load_level_6) under       *)
(*    SpecSource and SmallLevels (short pools) under Spec.                 *)
(*  - thread_rng() draws are choices from small sets: the spawn offset is  *)
(*    one of the two ends of its range (SpawnOffsets); the angle of a shot *)
(*    is the middle of its range (Cone1, Sweep6), straight down, and the   *)
(*    base angle of a fan is a multiple of pi/8 of its range (Fan6).       *)
(*  - The keys held at a frame are any subset of Keys.  Input keeps the    *)
(*    previous snapshot of Left and Right, the keys whose edges are read.  *)
(*  - A SpriteHolder is [len, active, sprites]: active is the set of       *)
(*    indices whose flag is true, sprites maps the indices whose record is *)
(*    not all-zero; SpriteAt reads a record.                               *)
(*  - sheet_region is in sixteenths of a sheet cell.  The enemy's          *)
(*    animation accumulator (Enemy.frame) and the sine bob of the eyes     *)
(*    only change what is drawn and are left out.  Audio is left out.      *)
(*  - gso.log is not in the source: it lists the events of the frame that  *)
(*    produced the state, for the properties to read.                      *)
(*  - the field revived of a sprite holder is not in the source either: it *)
(*    holds the slots that were written while inactive.                    *)
(***************************************************************************)
EXTENDS Integers, Sequences, FiniteSets, TLC

VARIABLES gso, levels, reg, unit

vars == <<gso, levels, reg, unit>>

(***************************************************************************)
(* Program constants                                                       *)
(***************************************************************************)
NumSlots == 1000
PlayerStartX == 400
PlayerStartY == 100
EntitySize == 64
PlayerMaxX == 960
EnemyX == 450
EnemyY == 650
SpawnJitter == 20
KillY == 1000
ChargesPerShot == 3

(***************************************************************************)
(* Bounds of the model                                                     *)
(***************************************************************************)
\* Player.speed (6.0 in the source)
PlayerSpeed == 480
\* speed passed to Player::spawn_new_projectile (10.0 in the source)
PlayerShotSpeed == 250
\* downward speed of an enemy shot (about 6.0 in the source)
EnemyShotSpeed == 300
\* cap on Player.charges (unbounded in the source)
MaxCharges == 3
\* level table of Spec
SmallPlayerHealth == 2
SmallEnemyHealth == 1
SmallPeriod == 3
SmallBossHealth == 3
\* frames of one gameplay session explored under SpecSource
MaxSourceFrames == 4
\* capacity of the registry driven directly under SpecRegistry
RegCap == 4
\* frames of the first level followed with no key held
MaxIdleFrames == 90
\* the boss fight followed from frame BossStart to frame BossEnd of Level6AI
BossStart == 648
BossEnd == 660
\* the rectangles of the overlap test: coordinates 0..MaxCoord, sides 1..MaxSide
MaxCoord == 3
MaxSide == 2
\* the health bars updated directly: maxval in 1..MaxBarHealth, currval from
\* MaxUnderflow below zero up to maxval
MaxBarHealth == 3
MaxUnderflow == 2
\* the counters of Level6AI stepped directly: 0..MaxBossCounter
MaxBossCounter == 1805

SourceLevels ==
    [l1 |-> [player_health |-> 10, enemy_health |-> 10, max_cooldown |-> 40],
     l6 |-> [player_health |-> 1, enemy_health |-> 1800, max_cooldown |-> 40]]

SmallLevels ==
    [l1 |-> [player_health |-> SmallPlayerHealth, enemy_health |-> SmallEnemyHealth,
             max_cooldown |-> SmallPeriod],
     l6 |-> [player_health |-> 1, enemy_health |-> SmallBossHealth,
             max_cooldown |-> SmallPeriod]]

\* thread_rng().gen_range(-20..=20)
SpawnOffsets == {-SpawnJitter, SpawnJitter}
\* velocity of a Level1AI shot: angle in [11pi/8, 13pi/8]
Cone1 == {<<0, -EnemyShotSpeed>>}
\* velocity of a Level6AI sweep shot: angle in [pi, 7pi/4]
Sweep6 == {<<0, -EnemyShotSpeed>>}
\* (cos, sin) of the angle k * pi/8, in thousandths
CosSin(k) ==
    CASE k = 9 -> <<-924, -383>>
      [] k = 10 -> <<-707, -707>>
      [] k = 11 -> <<-383, -924>>
      [] k = 12 -> <<0, -1000>>
      [] k = 13 -> <<383, -924>>
      [] k = 14 -> <<707, -707>>
      [] k = 15 -> <<924, -383>>

\* (angle.cos() * speed, angle.sin() * speed) for the angle k * pi/8
Dir(k) == <<(EnemyShotSpeed * CosSin(k)[1]) \div 1000,
            (EnemyShotSpeed * CosSin(k)[2]) \div 1000>>

\* base angles of a fan: gen_range(9pi/8 ..= 11pi/8), in steps of pi/8
FanBases == 9..11

\* velocities of a Level6AI fan: the base angle, then + 2pi/8 and + 2pi/8 again
Fan6 == {<<Dir(b), Dir(b + 2), Dir(b + 4)>> : b \in FanBases}

\* the game states
Title == 0
Gameplay == 1
GameOver == 2
StageCleared == 3
Win == 4
Title2 == 5
BossGameplay == 6
BossGameOver == 7

States == 0..7

Keys == {"Left", "Right", "Space"}

(***************************************************************************)
(* GPUSprite and SpriteHolder                                              *)
(***************************************************************************)
GPUSprite(screen, sheet) == [screen_region |-> screen, sheet_region |-> sheet]

Zeroed == GPUSprite(<<0, 0, 0, 0>>, <<0, 0, 0, 0>>)

NewSpriteHolder(n) ==
    [len |-> n, active |-> {}, sprites |-> [i \in {} |-> Zeroed], revived |-> {}]

SpriteAt(sh, i) == IF i \in DOMAIN sh.sprites THEN sh.sprites[i] ELSE Zeroed

\* the first index whose flag is false, or len when every flag is true
FirstInactive(sh) ==
    IF Cardinality(sh.active \cap (0..(sh.len - 1))) >= sh.len
    THEN sh.len
    ELSE CHOOSE i \in 0..Cardinality(sh.active) :
            /\ i \notin sh.active
            /\ \A j \in 0..(i - 1) : j \in sh.active

\* get_next_index without `self.active[i] = true`
get_next_index_unmarked(sh) ==
    LET i == FirstInactive(sh) IN
    [sh |-> sh, index |-> IF i < sh.len THEN i ELSE 0]

\* get_next_index with the scan run from the last index down
get_next_index_from_end(sh) ==
    LET free == (0..(sh.len - 1)) \ sh.active IN
    IF free # {}
    THEN LET i == CHOOSE i \in free : \A j \in free : j <= i
         IN  [sh |-> [sh EXCEPT !.active = @ \cup {i}], index |-> i]
    ELSE [sh |-> sh, index |-> 0]

\* get_next_index with `return self.active.len() - 1` after the loop
get_next_index_last_on_full(sh) ==
    LET i == FirstInactive(sh) IN
    IF i < sh.len
    THEN [sh |-> [sh EXCEPT !.active = @ \cup {i}], index |-> i]
    ELSE [sh |-> sh, index |-> sh.len - 1]

\* SpriteHolder::get_next_index: the holder afterwards and the index returned
get_next_index(sh) ==
    LET i == FirstInactive(sh) IN
    IF i < sh.len
    THEN [sh |-> [sh EXCEPT !.active = @ \cup {i}], index |-> i]
    ELSE [sh |-> sh, index |-> 0]

\* remove_sprite without `self.sprites[sprite_index] = GPUSprite::zeroed()`
remove_sprite_keeps_record(sh, sprite_index) ==
    [sh EXCEPT !.active = @ \ {sprite_index}]

\* SpriteHolder::remove_sprite
remove_sprite(sh, sprite_index) ==
    [sh EXCEPT !.active = @ \ {sprite_index},
               !.sprites = [j \in (DOMAIN @) \ {sprite_index} |-> @[j]]]

\* set_sprite without `self.active[sprite_index] = true`
set_sprite_keeps_flag(sh, sprite_index, sprite) ==
    [sh EXCEPT !.revived = @ \cup ({sprite_index} \ sh.active),
               !.sprites = IF sprite = Zeroed
                           THEN [j \in (DOMAIN @) \ {sprite_index} |-> @[j]]
                           ELSE [j \in (DOMAIN @) \cup {sprite_index} |->
                                    IF j = sprite_index THEN sprite ELSE @[j]]]

\* SpriteHolder::set_sprite
set_sprite(sh, sprite_index, sprite) ==
    [sh EXCEPT !.active = @ \cup {sprite_index},
               !.revived = @ \cup ({sprite_index} \ sh.active),
               !.sprites = IF sprite = Zeroed
                           THEN [j \in (DOMAIN @) \ {sprite_index} |-> @[j]]
                           ELSE [j \in (DOMAIN @) \cup {sprite_index} |->
                                    IF j = sprite_index THEN sprite ELSE @[j]]]

(***************************************************************************)
(* Constructors                                                            *)
(***************************************************************************)
NewScreen(sheet, index) ==
    [sprite |-> GPUSprite(<<160, 32, 720, 720>>, sheet), sprite_index |-> index]

NewPlayer(index) ==
    [pos |-> <<PlayerStartX, PlayerStartY>>,
     size |-> <<EntitySize, EntitySize>>,
     speed |-> PlayerSpeed,
     velocity |-> <<0, 0>>,
     sprite_index |-> index,
     facing_right |-> TRUE,
     sprite |-> GPUSprite(<<32, 128, 64, 64>>, <<0, 0, 16, 16>>),
     charges |-> 0]

NewHealthBar(health, bar_y, bar_sheet, index_border, index_bar) ==
    [currval |-> health,
     maxval |-> health,
     bar_pos |-> <<32, bar_y, 128, 24>>,
     units_per_pixel |-> 4,
     sprite_border |-> GPUSprite(<<32, 32, 128, 24>>, <<0, 32, 32, 6>>),
     sprite_index_border |-> index_border,
     sprite_bar |-> GPUSprite(<<32, 36, 128, 16>>, bar_sheet),
     sprite_index_bar |-> index_bar]

NewEnemy(health, index, index_eyes, index_border, index_bar) ==
    [pos |-> <<EnemyX, EnemyY>>,
     size |-> <<EntitySize, EntitySize>>,
     velocity |-> <<0, 0>>,
     sprite_index |-> index,
     sprite_index_eyes |-> index_eyes,
     sprite |-> GPUSprite(<<32, 128, 64, 64>>, <<16, 16, 16, 16>>),
     sprite_eyes |-> GPUSprite(<<32, 128, 64, 64>>, <<48, 16, 16, 16>>),
     health_bar |-> NewHealthBar(health, 600, <<0, 44, 32, 4>>, index_border, index_bar)]

Level0AI == [kind |-> "Level0AI", cooldown |-> 0, max_cooldown |-> 0]
Level1AI(period) == [kind |-> "Level1AI", cooldown |-> 0, max_cooldown |-> period]
Level6AI(period) == [kind |-> "Level6AI", cooldown |-> 0, max_cooldown |-> period]

make_projectile(projectiles, index, spawn_pos, velocity) ==
    Append(projectiles,
           [pos |-> spawn_pos,
            size |-> <<EntitySize, EntitySize>>,
            velocity |-> velocity,
            sprite_index |-> index,
            sprite |-> GPUSprite(<<2, 32, 64, 64>>, <<0, 16, 16, 16>>),
            is_dead |-> FALSE,
            player_spawned |-> FALSE])

make_player_projectile(projectiles, index, spawn_pos, velocity) ==
    Append(projectiles,
           [pos |-> spawn_pos,
            size |-> <<EntitySize, EntitySize>>,
            velocity |-> velocity,
            sprite_index |-> index,
            sprite |-> GPUSprite(<<2, 32, 64, 64>>, <<48, 32, 16, 16>>),
            is_dead |-> FALSE,
            player_spawned |-> TRUE])

\* the GameStateHolder built in run(): the six screens take the first six slots
InitialHolder ==
    LET a0 == get_next_index(NewSpriteHolder(NumSlots))
        a1 == get_next_index(a0.sh)
        a2 == get_next_index(a1.sh)
        a3 == get_next_index(a2.sh)
        a4 == get_next_index(a3.sh)
        a5 == get_next_index(a4.sh)
    IN  [game_state |-> Title,
         player |-> NewPlayer(0),
         enemy |-> [enemy |-> NewEnemy(10, 0, 0, 0, 0), ai |-> Level0AI],
         projectiles |-> <<>>,
         input |-> {},
         player_health_bar |-> NewHealthBar(10, 32, <<0, 39, 32, 4>>, 0, 0),
         background |-> [sprite |-> GPUSprite(<<0, 0, 1024, 760>>, <<0, 128, 192, 128>>),
                         sprite_index |-> a0.index],
         title_screen |-> NewScreen(<<0, 64, 64, 64>>, a1.index),
         death_screen |-> NewScreen(<<128, 64, 64, 64>>, a2.index),
         win_screen |-> NewScreen(<<64, 0, 64, 64>>, a3.index),
         title_screen_2 |-> NewScreen(<<128, 0, 64, 64>>, a4.index),
         cleared_screen |-> NewScreen(<<128, 64, 64, 64>>, a5.index),
         sprite_holder |-> a5.sh,
         trans_flag |-> 0,
         log |-> <<>>]

(***************************************************************************)
(* Level loading                                                           *)
(***************************************************************************)
\* Projectile::kill without `self.is_dead = true`
kill_keeps_alive(proj) == proj

kill(proj) == [proj EXCEPT !.is_dead = TRUE]

clean_dead(proj, sh) == remove_sprite(sh, proj.sprite_index)

RECURSIVE CleanAll(_, _)
\* one clean_dead call per dead projectile, in the order of the collection
CleanAll(projectiles, sh) ==
    IF projectiles = <<>> THEN sh
    ELSE CleanAll(Tail(projectiles),
                  IF Head(projectiles).is_dead
                  THEN clean_dead(Head(projectiles), sh) ELSE sh)

\* Vec::retain(|proj| !proj.is_dead)
retain_live(projectiles) == SelectSeq(projectiles, LAMBDA p : ~p.is_dead)

\* load_dead_level without the purge of the projectiles
load_dead_level_no_purge(g) ==
    LET s1 == remove_sprite(g.sprite_holder, g.player.sprite_index)
        s2 == remove_sprite(s1, g.enemy.enemy.sprite_index)
        s3 == remove_sprite(s2, g.enemy.enemy.sprite_index_eyes)
        s4 == remove_sprite(s3, g.enemy.enemy.health_bar.sprite_index_bar)
        s5 == remove_sprite(s4, g.enemy.enemy.health_bar.sprite_index_border)
        s6 == remove_sprite(s5, g.player_health_bar.sprite_index_bar)
        s7 == remove_sprite(s6, g.player_health_bar.sprite_index_border)
    IN  [g EXCEPT !.sprite_holder = s7,
                  !.player = NewPlayer(0),
                  !.enemy = [enemy |-> NewEnemy(10, 0, 0, 0, 0), ai |-> Level0AI],
                  !.player_health_bar = NewHealthBar(10, 32, <<0, 39, 32, 4>>, 0, 0)]

\* load_dead_level without the new player_health_bar
load_dead_level_keeps_player_bar(g) ==
    LET s1 == remove_sprite(g.sprite_holder, g.player.sprite_index)
        s2 == remove_sprite(s1, g.enemy.enemy.sprite_index)
        s3 == remove_sprite(s2, g.enemy.enemy.sprite_index_eyes)
        s4 == remove_sprite(s3, g.enemy.enemy.health_bar.sprite_index_bar)
        s5 == remove_sprite(s4, g.enemy.enemy.health_bar.sprite_index_border)
        s6 == remove_sprite(s5, g.player_health_bar.sprite_index_bar)
        s7 == remove_sprite(s6, g.player_health_bar.sprite_index_border)
        killed == [k \in DOMAIN g.projectiles |-> kill(g.projectiles[k])]
        s8 == CleanAll(killed, s7)
    IN  [g EXCEPT !.sprite_holder = s8,
                  !.projectiles = retain_live(killed),
                  !.player = NewPlayer(0),
                  !.enemy = [enemy |-> NewEnemy(10, 0, 0, 0, 0), ai |-> Level0AI]]

load_dead_level(g) ==
    LET s1 == remove_sprite(g.sprite_holder, g.player.sprite_index)
        s2 == remove_sprite(s1, g.enemy.enemy.sprite_index)
        s3 == remove_sprite(s2, g.enemy.enemy.sprite_index_eyes)
        s4 == remove_sprite(s3, g.enemy.enemy.health_bar.sprite_index_bar)
        s5 == remove_sprite(s4, g.enemy.enemy.health_bar.sprite_index_border)
        s6 == remove_sprite(s5, g.player_health_bar.sprite_index_bar)
        s7 == remove_sprite(s6, g.player_health_bar.sprite_index_border)
        killed == [k \in DOMAIN g.projectiles |-> kill(g.projectiles[k])]
        s8 == CleanAll(killed, s7)
    IN  [g EXCEPT !.sprite_holder = s8,
                  !.projectiles = retain_live(killed),
                  !.player = NewPlayer(0),
                  !.enemy = [enemy |-> NewEnemy(10, 0, 0, 0, 0), ai |-> Level0AI],
                  !.player_health_bar = NewHealthBar(10, 32, <<0, 39, 32, 4>>, 0, 0)]

\* the body shared by load_level_1 and load_level_6: seven allocations in
\* the order of the struct literals, then the three assignments
LoadLevel(g, lv, ai) ==
    LET a_player == get_next_index(g.sprite_holder)
        a_enemy == get_next_index(a_player.sh)
        a_eyes == get_next_index(a_enemy.sh)
        a_eborder == get_next_index(a_eyes.sh)
        a_ebar == get_next_index(a_eborder.sh)
        a_pborder == get_next_index(a_ebar.sh)
        a_pbar == get_next_index(a_pborder.sh)
    IN  [g EXCEPT !.sprite_holder = a_pbar.sh,
                  !.player = NewPlayer(a_player.index),
                  !.enemy = [enemy |-> NewEnemy(lv.enemy_health, a_enemy.index, a_eyes.index,
                                                a_eborder.index, a_ebar.index),
                             ai |-> ai],
                  !.player_health_bar = NewHealthBar(lv.player_health, 32, <<0, 39, 32, 4>>,
                                                     a_pborder.index, a_pbar.index)]

load_level_1(g) == LoadLevel(g, levels.l1, Level1AI(levels.l1.max_cooldown))

\* load_level_6 with the health pools of load_level_1
load_level_6_first_level(g) == LoadLevel(g, levels.l1, Level6AI(levels.l6.max_cooldown))

load_level_6(g) == LoadLevel(g, levels.l6, Level6AI(levels.l6.max_cooldown))

(***************************************************************************)
(* The state machine                                                       *)
(***************************************************************************)
Shown == <<160, 32, 720, 720>>
Hidden == <<0, 0, 0, 0>>

\* a `_ =>` arm that carries the request out
Rejected_applied(g, new_state) == [g EXCEPT !.game_state = new_state]

\* the `_ =>` arms with the player set back to its start
Rejected_resets_player(g, new_state) ==
    [g EXCEPT !.player.pos = <<PlayerStartX, PlayerStartY>>, !.player.charges = 0,
              !.player.sprite_index = 0,
              !.log = Append(@, [type |-> "rejected", from |-> g.game_state,
                                 to |-> new_state])]

\* the `_ =>` arms: the request is reported and nothing else is done
Rejected(g, new_state) ==
    [g EXCEPT !.log = Append(@, [type |-> "rejected", from |-> g.game_state,
                                 to |-> new_state])]

\* a transition carried out, for the record of the frame: g is the holder
\* after it, before the holder it was requested on
Entered(g, before) ==
    [g EXCEPT !.log = Append(@, [type |-> "entered", from |-> before.game_state,
                                 to |-> g.game_state])]

\* transition_to_state without the table: every request is carried out
transition_to_state_unchecked(new_state, g) == [g EXCEPT !.game_state = new_state]

transition_to_state(new_state, g) ==
    CASE g.game_state = 0 ->
            (CASE new_state = 1 -> Entered(load_level_1([g EXCEPT !.game_state = new_state]), g)
               [] new_state = 5 ->
                    Entered([g EXCEPT !.game_state = new_state,
                              !.title_screen_2.sprite.screen_region = Shown], g)
               [] OTHER -> Rejected(g, new_state))
      [] g.game_state = 1 ->
            LET r == [g EXCEPT !.trans_flag = 0] IN
            (CASE new_state = 2 ->
                    Entered(load_dead_level([r EXCEPT !.death_screen.sprite.screen_region = Shown,
                                              !.game_state = new_state]), g)
               [] new_state = 3 ->
                    Entered(load_dead_level([r EXCEPT !.cleared_screen.sprite.screen_region = Shown,
                                              !.game_state = new_state]), g)
               [] new_state = 4 ->
                    Entered(load_dead_level([r EXCEPT !.win_screen.sprite.screen_region = Shown,
                                              !.game_state = new_state]), g)
               [] OTHER -> Rejected(r, new_state))
      [] g.game_state = 2 ->
            (CASE new_state = 1 -> Entered(load_level_1([g EXCEPT !.game_state = new_state]), g)
               [] OTHER -> Rejected(g, new_state))
      [] g.game_state = 3 ->
            (CASE new_state = 1 -> Entered(load_level_1([g EXCEPT !.game_state = new_state]), g)
               [] OTHER -> Rejected(g, new_state))
      [] g.game_state = 5 ->
            (CASE new_state = 6 -> Entered(load_level_6([g EXCEPT !.game_state = new_state]), g)
               [] new_state = 0 ->
                    Entered([g EXCEPT !.game_state = new_state,
                              !.title_screen.sprite.screen_region = Shown], g)
               [] OTHER -> Rejected(g, new_state))
      [] g.game_state = 6 ->
            LET r == [g EXCEPT !.trans_flag = 0] IN
            (CASE new_state = 7 ->
                    Entered(load_dead_level([r EXCEPT !.death_screen.sprite.screen_region = Shown,
                                              !.game_state = new_state]), g)
               [] new_state = 3 ->
                    Entered(load_dead_level([r EXCEPT !.cleared_screen.sprite.screen_region = Shown,
                                              !.game_state = new_state]), g)
               [] new_state = 4 ->
                    Entered(load_dead_level([r EXCEPT !.win_screen.sprite.screen_region = Shown,
                                              !.game_state = new_state]), g)
               [] OTHER -> Rejected(r, new_state))
      [] g.game_state = 7 ->
            (CASE new_state = 6 -> Entered(load_level_6([g EXCEPT !.game_state = new_state]), g)
               [] OTHER -> Rejected(g, new_state))
      [] OTHER -> Rejected(g, new_state)

(***************************************************************************)
(* Damage                                                                  *)
(***************************************************************************)
Event(type, index, value, flag) ==
    [type |-> type, index |-> index, value |-> value, flag |-> flag]

\* Player::damage without the `else if game_state == 6` arm
Player_damage_one_flag(g, amount, game_state) ==
    LET h == g.player_health_bar.currval - amount
        f == IF h <= 0 THEN 2 ELSE g.trans_flag
    IN  [g EXCEPT !.player_health_bar.currval = h,
                  !.trans_flag = f,
                  !.log = Append(@, Event("player_damage", g.game_state, h, f))]

\* Player::damage writing the state of the game where it writes trans_flag
Player_damage_writes_state(g, amount, game_state) ==
    LET h == g.player_health_bar.currval - amount
        st == IF h <= 0
              THEN (IF game_state = 1 THEN 2
                    ELSE IF game_state = 6 THEN 7 ELSE g.game_state)
              ELSE g.game_state
    IN  [g EXCEPT !.player_health_bar.currval = h,
                  !.game_state = st,
                  !.log = Append(@, Event("player_damage", g.game_state, h, g.trans_flag))]

\* Player::damage
\* Player::damage with the values of its two arms exchanged
Player_damage_arms_exchanged(g, amount, game_state) ==
    LET h == g.player_health_bar.currval - amount
        f == IF h <= 0
             THEN (IF game_state = 1 THEN 7
                   ELSE IF game_state = 6 THEN 2 ELSE g.trans_flag)
             ELSE g.trans_flag
    IN  [g EXCEPT !.player_health_bar.currval = h,
                  !.trans_flag = f,
                  !.log = Append(@, Event("player_damage", g.game_state, h, f))]

Player_damage(g, amount, game_state) ==
    LET h == g.player_health_bar.currval - amount
        f == IF h <= 0
             THEN (IF game_state = 1 THEN 2
                   ELSE IF game_state = 6 THEN 7 ELSE g.trans_flag)
             ELSE g.trans_flag
    IN  [g EXCEPT !.player_health_bar.currval = h,
                  !.trans_flag = f,
                  !.log = Append(@, Event("player_damage", g.game_state, h, f))]

\* Enemy::damage
Enemy_damage(g, amount) ==
    LET h == g.enemy.enemy.health_bar.currval - amount
        f == IF h <= 0 THEN 4 ELSE g.trans_flag
    IN  [g EXCEPT !.enemy.enemy.health_bar.currval = h,
                  !.trans_flag = f,
                  !.log = Append(@, Event("enemy_damage", g.game_state, h, f))]

(***************************************************************************)
(* Projectiles                                                             *)
(***************************************************************************)
\* the rectangle test with its first comparison strict
Overlaps_strict_above(apos, asize, bpos, bsize) ==
    /\ apos[2] < bpos[2] + bsize[2]
    /\ apos[2] + asize[2] >= bpos[2]
    /\ apos[1] <= bpos[1] + bsize[1]
    /\ apos[1] + asize[1] >= bpos[1]

\* the rectangle test of check_collision: a at pos/size against b at pos/size
Overlaps(apos, asize, bpos, bsize) ==
    /\ apos[2] <= bpos[2] + bsize[2]
    /\ apos[2] + asize[2] >= bpos[2]
    /\ apos[1] <= bpos[1] + bsize[1]
    /\ apos[1] + asize[1] >= bpos[1]

\* a projectile that left past y = 0, for the record of the frame: its slot,
\* whose it was, the state of the game, and the player's health before
\* move_proj and after it
log_missed(g, proj, before) ==
    [g EXCEPT !.log = Append(@, [type |-> "missed", index |-> proj.sprite_index,
                                 player_spawned |-> proj.player_spawned,
                                 state |-> g.game_state,
                                 value |-> before,
                                 flag |-> g.player_health_bar.currval])]

\* move_proj with the damage of a miss dealt in every state
move_proj_any_state(g, k) ==
    LET p == g.projectiles[k]
        pos == <<p.pos[1] + p.velocity[1], p.pos[2] + p.velocity[2]>>
        moved == [p EXCEPT !.pos = pos,
                           !.sprite.screen_region = <<pos[1], pos[2], p.size[1], p.size[2]>>]
    IN  IF pos[2] < 0
        THEN log_missed(Player_damage([g EXCEPT !.projectiles[k] = kill(moved)], 1,
                                      g.game_state),
                        p, g.player_health_bar.currval)
        ELSE IF pos[2] > KillY
        THEN [g EXCEPT !.projectiles[k] = kill(moved)]
        ELSE [g EXCEPT !.projectiles[k] = moved]

\* Projectile::move_proj on projectile k of the collection
move_proj(g, k) ==
    LET p == g.projectiles[k]
        pos == <<p.pos[1] + p.velocity[1], p.pos[2] + p.velocity[2]>>
        moved == [p EXCEPT !.pos = pos,
                           !.sprite.screen_region = <<pos[1], pos[2], p.size[1], p.size[2]>>]
    IN  IF pos[2] < 0
        THEN log_missed(IF g.game_state = 1
                        THEN Player_damage([g EXCEPT !.projectiles[k] = kill(moved)], 1, 1)
                        ELSE [g EXCEPT !.projectiles[k] = kill(moved)],
                        p, g.player_health_bar.currval)
        ELSE IF pos[2] > KillY
        THEN [g EXCEPT !.projectiles[k] = kill(moved)]
        ELSE [g EXCEPT !.projectiles[k] = moved]

\* `player.charges += 1` without the `if game_state == 1` around it
charge_hit_any_state(g, p) ==
    [g EXCEPT !.player.charges = @ + 1,
              !.log = Append(@, Event("player_hit", p.sprite_index,
                                      g.player.charges + 1, 0))]

\* the body of `if game_state == 1 { player.charges += 1 }`
charge_hit(g, p) ==
    IF g.game_state = 1
    THEN [g EXCEPT !.player.charges = @ + 1,
                   !.log = Append(@, Event("player_hit", p.sprite_index,
                                           g.player.charges + 1, 0))]
    ELSE g

\* `if game_state == 6 { Player::damage(1.0, .., 6) }`
boss_hit(g) == IF g.game_state = 6 THEN Player_damage(g, 1, 6) ELSE g

\* a projectile that met its target, for the record of the frame: whose it
\* was, the state of the game, whether it was dead before check_collision
\* and is after it, and the charges and the two health values before and after
log_collision(after, before, k) ==
    [after EXCEPT !.log = Append(@,
        [type |-> "collision",
         index |-> before.projectiles[k].sprite_index,
         player_spawned |-> before.projectiles[k].player_spawned,
         state |-> before.game_state,
         was_dead |-> before.projectiles[k].is_dead,
         is_dead |-> after.projectiles[k].is_dead,
         charges |-> <<before.player.charges, after.player.charges>>,
         player_health |-> <<before.player_health_bar.currval,
                             after.player_health_bar.currval>>,
         enemy_health |-> <<before.enemy.enemy.health_bar.currval,
                            after.enemy.enemy.health_bar.currval>>])]

\* Projectile::check_collision on projectile k of the collection
check_collision(g, k) ==
    LET p == g.projectiles[k] IN
    IF p.player_spawned
    THEN IF Overlaps(p.pos, p.size, g.enemy.enemy.pos, g.enemy.enemy.size)
         THEN log_collision(
                 [Enemy_damage([g EXCEPT !.log = Append(@, Event("enemy_hit", p.sprite_index,
                                                                 0, 0))], 1)
                     EXCEPT !.projectiles[k] = kill(@)], g, k)
         ELSE g
    ELSE IF Overlaps(p.pos, p.size, g.player.pos, g.player.size)
         THEN log_collision([boss_hit(charge_hit(g, p)) EXCEPT !.projectiles[k] = kill(@)],
                            g, k)
         ELSE g

\* the write of projectile k with clean_dead moved into the loop, ahead of it
sync_proj_after_clean(g, k) ==
    [g EXCEPT !.sprite_holder =
        set_sprite(IF g.projectiles[k].is_dead
                   THEN clean_dead(g.projectiles[k], @) ELSE @,
                   g.projectiles[k].sprite_index, g.projectiles[k].sprite)]

\* gso.sprite_holder.set_sprite(proj.sprite_index, proj.sprite) for projectile k
sync_proj(g, k) ==
    [g EXCEPT !.sprite_holder =
        set_sprite(@, g.projectiles[k].sprite_index, g.projectiles[k].sprite)]

RECURSIVE UpdateProjectiles(_, _)
\* the `for proj in gso.projectiles.iter_mut()` loop, from index k on
UpdateProjectiles(g, k) ==
    IF k > Len(g.projectiles) THEN g
    ELSE UpdateProjectiles(sync_proj(check_collision(move_proj(g, k), k), k), k + 1)

\* the sweep without the clean_dead pass
SweepDead_keeps_slots(g) == [g EXCEPT !.projectiles = retain_live(@)]

\* the sweep that follows the loop: clean_dead on the dead, then retain
SweepDead(g) ==
    [g EXCEPT !.sprite_holder = CleanAll(g.projectiles, @),
              !.projectiles = retain_live(@)]

(***************************************************************************)
(* Player                                                                  *)
(***************************************************************************)
add_speed(player, new_velocity) ==
    [player EXCEPT !.velocity = <<@[1] + new_velocity[1], @[2] + new_velocity[2]>>]

\* the shot just fired, for the record of the frame: the slot of the
\* projectile, the counter before the shot and the counter after it
log_shot(g, index, before) ==
    [g EXCEPT !.log = Append(@, Event("shot", index, before, g.player.charges))]

\* Player::spawn_new_projectile with the shot sent towards y = 0
Player_spawn_new_projectile_downward(g, speed) ==
    IF g.player.charges >= ChargesPerShot
    THEN LET a == get_next_index(g.sprite_holder)
             pos == <<g.player.pos[1], g.player.pos[2] + g.player.size[2]>>
         IN  log_shot([g EXCEPT !.projectiles =
                                    make_player_projectile(@, a.index, pos, <<0, -speed>>),
                                !.sprite_holder = a.sh,
                                !.player.charges = 0],
                      a.index, g.player.charges)
    ELSE g

\* Player::spawn_new_projectile without `self.charges = 0`
Player_spawn_new_projectile_keeps_charges(g, speed) ==
    IF g.player.charges >= ChargesPerShot
    THEN LET a == get_next_index(g.sprite_holder)
             pos == <<g.player.pos[1], g.player.pos[2] + g.player.size[2]>>
         IN  log_shot([g EXCEPT !.projectiles =
                                    make_player_projectile(@, a.index, pos, <<0, speed>>),
                                !.sprite_holder = a.sh],
                      a.index, g.player.charges)
    ELSE g

\* spawn_new_projectile without the test of the charges
Player_spawn_new_projectile_uncharged(g, speed) ==
    LET a == get_next_index(g.sprite_holder)
        pos == <<g.player.pos[1], g.player.pos[2] + g.player.size[2]>>
    IN  log_shot([g EXCEPT !.projectiles =
                               make_player_projectile(@, a.index, pos, <<0, speed>>),
                           !.sprite_holder = a.sh,
                           !.player.charges = 0],
                 a.index, g.player.charges)

\* Player::spawn_new_projectile
Player_spawn_new_projectile(g, speed) ==
    IF g.player.charges >= ChargesPerShot
    THEN LET a == get_next_index(g.sprite_holder)
             pos == <<g.player.pos[1], g.player.pos[2] + g.player.size[2]>>
         IN  log_shot([g EXCEPT !.projectiles =
                                    make_player_projectile(@, a.index, pos, <<0, speed>>),
                                !.sprite_holder = a.sh,
                                !.player.charges = 0],
                      a.index, g.player.charges)
    ELSE g

\* set_sprite(&mut GPUSprite, index): the sheet cell of a sprite
set_sheet(sprite, index) ==
    [sprite EXCEPT !.sheet_region = <<16 * index[1], 16 * index[2], 16, 16>>]

\* Player::player_loop
player_loop(g) ==
    LET p0 == g.player
        x1 == IF p0.velocity[1] > 0
              THEN (IF p0.pos[1] + p0.speed > PlayerMaxX THEN PlayerMaxX
                    ELSE p0.pos[1] + p0.speed)
              ELSE p0.pos[1]
        f1 == IF p0.velocity[1] > 0 THEN TRUE ELSE p0.facing_right
        x2 == IF p0.velocity[1] < 0
              THEN (IF x1 - p0.speed < 0 THEN 0 ELSE x1 - p0.speed)
              ELSE x1
        f2 == IF p0.velocity[1] < 0 THEN FALSE ELSE f1
        placed == [p0.sprite EXCEPT !.screen_region =
                        <<x2, p0.pos[2], p0.size[1], p0.size[2]>>]
        sprite == IF f2 THEN set_sheet(placed, <<0, 0>>) ELSE set_sheet(placed, <<2, 0>>)
    IN  [g EXCEPT !.player.pos = <<x2, p0.pos[2]>>,
                  !.player.facing_right = f2,
                  !.player.sprite = sprite,
                  !.sprite_holder = set_sprite(@, p0.sprite_index, sprite)]

(***************************************************************************)
(* Health bars                                                             *)
(***************************************************************************)
\* health_bar_loop without `if self.currval < 0.0 { self.currval = 0.0; }`
health_bar_loop_unclamped(hb, sh) ==
    LET bar == [hb.sprite_bar EXCEPT !.screen_region =
                    <<hb.bar_pos[1], hb.bar_pos[2] + hb.units_per_pixel,
                      <<hb.bar_pos[3] * hb.currval, hb.maxval>>,
                      hb.bar_pos[4] - 2 * hb.units_per_pixel>>]
        border == [hb.sprite_border EXCEPT !.screen_region = hb.bar_pos]
        hb2 == [hb EXCEPT !.sprite_bar = bar, !.sprite_border = border]
    IN  [hb |-> hb2,
         sh |-> set_sprite(set_sprite(sh, hb.sprite_index_bar, bar),
                           hb.sprite_index_border, border)]

\* HealthBar::health_bar_loop: the bar and the holder afterwards.  The fill
\* width bar_pos.2 * (currval / maxval) is kept as <<numerator, denominator>>.
health_bar_loop(hb, sh) ==
    LET cur == IF hb.currval < 0 THEN 0 ELSE hb.currval
        bar == [hb.sprite_bar EXCEPT !.screen_region =
                    <<hb.bar_pos[1], hb.bar_pos[2] + hb.units_per_pixel,
                      <<hb.bar_pos[3] * cur, hb.maxval>>,
                      hb.bar_pos[4] - 2 * hb.units_per_pixel>>]
        border == [hb.sprite_border EXCEPT !.screen_region = hb.bar_pos]
        hb2 == [hb EXCEPT !.currval = cur, !.sprite_bar = bar, !.sprite_border = border]
    IN  [hb |-> hb2,
         sh |-> set_sprite(set_sprite(sh, hb.sprite_index_bar, bar),
                           hb.sprite_index_border, border)]

(***************************************************************************)
(* Enemy and AI                                                            *)
(***************************************************************************)
\* Enemy::spawn_new_projectile, with the drawn offset
Enemy_spawn_new_projectile(g, velocity, offset) ==
    LET a == get_next_index(g.sprite_holder) IN
    [g EXCEPT !.projectiles = make_projectile(@, a.index, <<450 + offset, 650>>, velocity),
              !.sprite_holder = a.sh,
              !.log = Append(@, Event("spawn", a.index, 0, 0))]

\* Level1AI::ai_loop with the timer reset to max_cooldown - 1
Level1AI_loop_short_reset(ai) ==
    IF ai.cooldown > 0
    THEN [ai |-> [ai EXCEPT !.cooldown = @ - 1], shots |-> 0]
    ELSE [ai |-> [ai EXCEPT !.cooldown = ai.max_cooldown - 1], shots |-> 1]

\* Level1AI::ai_loop: the AI afterwards and the number of shots of the step
Level1AI_loop(ai) ==
    IF ai.cooldown > 0
    THEN [ai |-> [ai EXCEPT !.cooldown = @ - 1], shots |-> 0]
    ELSE [ai |-> [ai EXCEPT !.cooldown = ai.max_cooldown], shots |-> 1]

\* Level6AI::ai_loop with the fan fired every 50 steps
Level6AI_loop_every_50(ai) ==
    LET c == ai.cooldown + 1
        n == IF c > 0 /\ c <= 600 THEN (IF c % 100 < 55 THEN 1 ELSE 0)
             ELSE IF c > 600 /\ c <= 1200 THEN (IF c % 50 = 0 THEN 3 ELSE 0)
             ELSE IF c > 1200 /\ c <= 1800 THEN (IF c % 20 < 3 THEN 1 ELSE 0)
             ELSE 0
    IN  [ai |-> [ai EXCEPT !.cooldown = c], shots |-> n]

\* Level6AI::ai_loop with the fan fired at every step of its phase
Level6AI_loop_fan_every_step(ai) ==
    LET c == ai.cooldown + 1
        n == IF c > 0 /\ c <= 600 THEN (IF c % 100 < 55 THEN 1 ELSE 0)
             ELSE IF c > 600 /\ c <= 1200 THEN 3
             ELSE IF c > 1200 /\ c <= 1800 THEN (IF c % 20 < 3 THEN 1 ELSE 0)
             ELSE 0
    IN  [ai |-> [ai EXCEPT !.cooldown = c], shots |-> n]

\* Level6AI::ai_loop with a last phase that has no end
Level6AI_loop_no_end(ai) ==
    LET c == ai.cooldown + 1
        n == IF c > 0 /\ c <= 600 THEN (IF c % 100 < 55 THEN 1 ELSE 0)
             ELSE IF c > 600 /\ c <= 1200 THEN (IF c % 30 = 0 THEN 3 ELSE 0)
             ELSE IF c > 1200 THEN (IF c % 20 < 3 THEN 1 ELSE 0)
             ELSE 0
    IN  [ai |-> [ai EXCEPT !.cooldown = c], shots |-> n]

\* Level6AI::ai_loop: the AI afterwards and the number of shots of the step
Level6AI_loop(ai) ==
    LET c == ai.cooldown + 1
        n == IF c > 0 /\ c <= 600 THEN (IF c % 100 < 55 THEN 1 ELSE 0)
             ELSE IF c > 600 /\ c <= 1200 THEN (IF c % 30 = 0 THEN 3 ELSE 0)
             ELSE IF c > 1200 /\ c <= 1800 THEN (IF c % 20 < 3 THEN 1 ELSE 0)
             ELSE 0
    IN  [ai |-> [ai EXCEPT !.cooldown = c], shots |-> n]

\* dyn AI::ai_loop
ai_step(ai) ==
    CASE ai.kind = "Level1AI" -> Level1AI_loop(ai)
      [] ai.kind = "Level6AI" -> Level6AI_loop(ai)
      [] OTHER -> [ai |-> ai, shots |-> 0]

\* the velocities a step of the AI may give its shots
ShotVelocities(ai) ==
    LET n == ai_step(ai).shots IN
    IF n = 0 THEN {<<>>}
    ELSE IF ai.kind = "Level1AI" THEN {<<v>> : v \in Cone1}
    ELSE IF n = 3 THEN Fan6
    ELSE {<<v>> : v \in Sweep6}

\* the draws of one AI step: a velocity and a spawn offset for each shot
Draws(ai) ==
    {[vs |-> vs, offs |-> offs] :
        vs \in ShotVelocities(ai), offs \in [1..ai_step(ai).shots -> SpawnOffsets]}

RECURSIVE SpawnAll(_, _, _, _)
SpawnAll(g, vs, offs, k) ==
    IF k > Len(vs) THEN g
    ELSE SpawnAll(Enemy_spawn_new_projectile(g, vs[k], offs[k]), vs, offs, k + 1)

\* the part of enemy_loop before the AI step: position and sprite regions
enemy_place(g) ==
    LET e0 == g.enemy.enemy
        pos == <<e0.pos[1] + e0.velocity[1], e0.pos[2] + e0.velocity[2]>>
    IN  [g EXCEPT !.enemy.enemy.pos = pos,
                  !.enemy.enemy.sprite.screen_region =
                        <<pos[1], pos[2], e0.size[1], e0.size[2]>>,
                  !.enemy.enemy.sprite_eyes.screen_region =
                        <<pos[1], pos[2] - 2, e0.size[1], e0.size[2]>>]

\* self.ai.ai_loop(projectiles, sprite_holder, &self.enemy)
ai_loop(g, vs, offs) == SpawnAll([g EXCEPT !.enemy.ai = ai_step(@).ai], vs, offs, 1)

\* the part of enemy_loop after the AI step: bar position, the two
\* set_sprite calls and health_bar_loop
enemy_sync(g) ==
    LET e == g.enemy.enemy
        hb0 == [e.health_bar EXCEPT !.bar_pos = <<e.pos[1] - 32, e.pos[2] + 72, @[3], @[4]>>]
        r == health_bar_loop(hb0, set_sprite(set_sprite(g.sprite_holder, e.sprite_index,
                                                        e.sprite),
                                             e.sprite_index_eyes, e.sprite_eyes))
    IN  [g EXCEPT !.enemy.enemy.health_bar = r.hb, !.sprite_holder = r.sh]

\* Entity::enemy_loop, with the velocities and offsets drawn by the AI step
enemy_loop(g, vs, offs) == enemy_sync(ai_loop(enemy_place(g), vs, offs))

(***************************************************************************)
(* Frame routines.  keys is the set of controls held at this frame's       *)
(* snapshot; g.input is the set held at the previous one.                  *)
(***************************************************************************)
is_key_down(keys, k) == k \in keys
is_key_pressed(g, keys, k) == k \in keys /\ k \notin g.input
is_key_released(g, keys, k) == k \notin keys /\ k \in g.input

\* `if cond { gso.player.add_speed(v) }`
add_speed_if(cond, g, v) == IF cond THEN [g EXCEPT !.player = add_speed(@, v)] ELSE g

\* the four key tests that open main_event_loop
move_keys(g, keys) ==
    add_speed_if(is_key_released(g, keys, "Left"),
      add_speed_if(is_key_released(g, keys, "Right"),
        add_speed_if(is_key_pressed(g, keys, "Left"),
          add_speed_if(is_key_pressed(g, keys, "Right"), g, <<g.player.speed, 0>>),
          <<-g.player.speed, 0>>),
        <<-g.player.speed, 0>>),
      <<g.player.speed, 0>>)

\* set_sprite of a Screen held in field scr of the holder
sync_screen(g, scr) ==
    [g EXCEPT !.sprite_holder = set_sprite(@, g[scr].sprite_index, g[scr].sprite)]

\* screen_region = [0, 0, 0, 0] followed by set_sprite
hide_screen(g, scr) == sync_screen([g EXCEPT ![scr].sprite.screen_region = Hidden], scr)

\* `if is_key_down(Space) { spawn_new_projectile(10.0, ..) }`
shoot_key(g, keys) ==
    IF is_key_down(keys, "Space")
    THEN Player_spawn_new_projectile(
             [g EXCEPT !.log = Append(@, Event("shoot_key", 0, g.player.charges, 0))],
             PlayerShotSpeed)
    ELSE g

\* gso.player_health_bar.health_bar_loop(&mut gso.sprite_holder)
player_bar(g) ==
    LET r == health_bar_loop(g.player_health_bar, g.sprite_holder) IN
    [g EXCEPT !.player_health_bar = r.hb, !.sprite_holder = r.sh]

\* the per-frame damage of the boss fight taking 2 of the enemy's health
boss_tick_double(g) == IF g.game_state = 6 THEN Enemy_damage(g, 2) ELSE g

\* `if gso.game_state.state == 6 { gso.enemy.enemy.damage(1.0, ..) }`
boss_tick(g) == IF g.game_state = 6 THEN Enemy_damage(g, 1) ELSE g

\* `if gso.trans_flag.val != 0 { transition_to_state(gso.trans_flag.val, gso) }`
watch_flag(g) == IF g.trans_flag # 0 THEN transition_to_state(g.trans_flag, g) ELSE g

\* main_event_loop with the transition check ahead of the projectile loop
main_event_loop_early_watch(g, keys, draw) ==
    SweepDead(
      UpdateProjectiles(
        watch_flag(
          enemy_loop(
            boss_tick(
              player_bar(
                player_loop(
                  shoot_key(sync_screen(move_keys(g, keys), "background"), keys)))),
            draw.vs, draw.offs)),
        1))

\* main_event_loop with the projectile loop ahead of the shot and the AI step
main_event_loop_update_first(g, keys, draw) ==
    watch_flag(
      SweepDead(
        enemy_loop(
          boss_tick(
            player_bar(
              player_loop(
                shoot_key(
                  UpdateProjectiles(sync_screen(move_keys(g, keys), "background"), 1),
                  keys)))),
          draw.vs, draw.offs)))

\* main_event_loop with the boss's damage of the frame after the projectile loop
main_event_loop_late_tick(g, keys, draw) ==
    watch_flag(
      SweepDead(
        boss_tick(
          UpdateProjectiles(
            enemy_loop(
              player_bar(
                player_loop(
                  shoot_key(sync_screen(move_keys(g, keys), "background"), keys))),
              draw.vs, draw.offs),
            1))))

main_event_loop(g, keys, draw) ==
    watch_flag(
      SweepDead(
        UpdateProjectiles(
          enemy_loop(
            boss_tick(
              player_bar(
                player_loop(
                  shoot_key(sync_screen(move_keys(g, keys), "background"), keys)))),
            draw.vs, draw.offs),
          1)))

title_screen_loop(g, keys) ==
    sync_screen(IF is_key_down(keys, "Space")
                THEN hide_screen(transition_to_state(1, g), "title_screen")
                ELSE IF is_key_down(keys, "Right")
                THEN hide_screen(transition_to_state(5, g), "title_screen")
                ELSE g,
                "title_screen")

death_screen_loop(g, keys, next_state) ==
    sync_screen(IF is_key_down(keys, "Space")
                THEN hide_screen(transition_to_state(next_state, g), "death_screen")
                ELSE g,
                "death_screen")

cleared_screen_loop(g, keys) ==
    sync_screen(IF is_key_down(keys, "Space")
                THEN hide_screen(transition_to_state(1, g), "cleared_screen")
                ELSE g,
                "cleared_screen")

win_screen_loop(g) == sync_screen(g, "win_screen")

title_screen_2_loop(g, keys) ==
    sync_screen(IF is_key_down(keys, "Space")
                THEN hide_screen(transition_to_state(6, g), "title_screen_2")
                ELSE IF is_key_down(keys, "Left")
                THEN hide_screen(transition_to_state(0, g), "title_screen_2")
                ELSE g,
                "title_screen_2")

\* the match of the RedrawRequested arm of run(), on a holder whose log is empty
dispatch(g, keys, draw) ==
    CASE g.game_state = 0 -> title_screen_loop(g, keys)
      [] g.game_state = 1 -> main_event_loop(g, keys, draw)
      [] g.game_state = 2 -> death_screen_loop(g, keys, 1)
      [] g.game_state = 3 -> cleared_screen_loop(g, keys)
      [] g.game_state = 4 -> win_screen_loop(g)
      [] g.game_state = 5 -> title_screen_2_loop(g, keys)
      [] g.game_state = 6 -> main_event_loop(g, keys, draw)
      [] g.game_state = 7 -> death_screen_loop(g, keys, 6)
      [] OTHER -> g

\* Input::next_frame: the snapshot becomes the previous one.  Only the edges
\* of Left and Right are ever read, so Space is not kept.
next_frame(g, keys) == [g EXCEPT !.input = keys \ {"Space"}]

\* the RedrawRequested arm of run(): the routine of the state, then next_frame
redraw(g, keys, draw) == next_frame(dispatch([g EXCEPT !.log = <<>>], keys, draw), keys)

InGameplay(g) == g.game_state \in {Gameplay, BossGameplay}

\* the draws a frame makes: those of the AI step in a gameplay frame
FrameDraws(g) ==
    IF InGameplay(g) THEN Draws(g.enemy.ai) ELSE {[vs |-> <<>>, offs |-> <<>>]}

\* frames of the gameplay session so far, read off the AI's counter
SessionFrames(g) ==
    CASE g.enemy.ai.kind = "Level1AI" ->
            (IF g.enemy.ai.cooldown = 0 THEN 0
             ELSE g.enemy.ai.max_cooldown + 1 - g.enemy.ai.cooldown)
      [] g.enemy.ai.kind = "Level6AI" -> g.enemy.ai.cooldown
      [] OTHER -> 0

(***************************************************************************)
(* The registry driven directly                                            *)
(***************************************************************************)
RegSprites ==
    {Zeroed, GPUSprite(<<2, 32, 64, 64>>, <<0, 16, 16, 16>>)}

RegInit ==
    [holder |-> NewSpriteHolder(RegCap), held |-> {}, op |-> "new", index |-> 0,
     fresh |-> TRUE, sprite |-> Zeroed]

\* allocate: held is the set of indices returned and not released since;
\* fresh tells whether the index returned was outside it
Allocate ==
    LET a == get_next_index(reg.holder) IN
    /\ reg' = [holder |-> a.sh, held |-> reg.held \cup {a.index}, op |-> "allocate",
               index |-> a.index, fresh |-> a.index \notin reg.held, sprite |-> Zeroed]
    /\ UNCHANGED <<gso, levels, unit>>

Release(i) ==
    /\ reg' = [holder |-> remove_sprite(reg.holder, i), held |-> reg.held \ {i},
               op |-> "release", index |-> i, fresh |-> TRUE, sprite |-> Zeroed]
    /\ UNCHANGED <<gso, levels, unit>>

\* a holder with its set of revived slots emptied: driven directly, the
\* registry keeps that set from one write to the next
Unrevived(sh) == [sh EXCEPT !.revived = {}]

Write(i, sprite) ==
    /\ reg' = [reg EXCEPT !.holder = set_sprite(Unrevived(@), i, sprite), !.op = "write",
                          !.index = i, !.fresh = TRUE, !.sprite = sprite]
    /\ UNCHANGED <<gso, levels, unit>>

(***************************************************************************)
(* The health bar update and the rectangle test driven directly            *)
(***************************************************************************)
UnitInit == [op |-> "new"]

\* the player's bar (at y = 32) and the enemy's (at y = 600) as load_level_1
\* and Enemy::new build them, after damage took currval from maxval to cur
UnitBars ==
    {[NewHealthBar(max, y, <<0, 39, 32, 4>>, 0, 1) EXCEPT !.currval = cur] :
        <<max, cur, y>> \in {t \in (1..MaxBarHealth) \X ((-MaxUnderflow)..MaxBarHealth)
                                    \X {32, 600} : t[2] <= t[1]}}

UnitRects == ((0..MaxCoord) \X (0..MaxCoord)) \X ((1..MaxSide) \X (1..MaxSide))

\* the holders transition_to_state is called on, by name: those of the
\* screen loops, and those of the end of main_event_loop with no damage
\* done, with the player's health taken to 0 and with the enemy's
CallPoints ==
    {"Title", "Title2", "GameOver", "Win", "BossGameOver",
     "Gameplay", "GameplayLost", "GameplayWon", "Boss", "BossLost", "BossWon"}

\* the last unit of health taken from the player, or from the enemy
LastHit(g, whose) ==
    IF whose = "player"
    THEN Player_damage([g EXCEPT !.player_health_bar.currval = 1], 1, g.game_state)
    ELSE Enemy_damage([g EXCEPT !.enemy.enemy.health_bar.currval = 1], 1)

Level1Loaded == transition_to_state(Gameplay, InitialHolder)

Level6Loaded == transition_to_state(BossGameplay, transition_to_state(Title2, InitialHolder))

CallPoint(at) ==
    CASE at = "Title" -> InitialHolder
      [] at = "Title2" -> transition_to_state(Title2, InitialHolder)
      [] at = "GameOver" -> transition_to_state(GameOver, LastHit(Level1Loaded, "player"))
      [] at = "Win" -> transition_to_state(Win, LastHit(Level1Loaded, "enemy"))
      [] at = "BossGameOver" ->
            transition_to_state(BossGameOver, LastHit(Level6Loaded, "player"))
      [] at = "Gameplay" -> Level1Loaded
      [] at = "GameplayLost" -> LastHit(Level1Loaded, "player")
      [] at = "GameplayWon" -> LastHit(Level1Loaded, "enemy")
      [] at = "Boss" -> Level6Loaded
      [] at = "BossLost" -> LastHit(Level6Loaded, "player")
      [] at = "BossWon" -> LastHit(Level6Loaded, "enemy")

\* a holder without the record of events, which the source does not have
Rest(g) == [g EXCEPT !.log = <<>>]

\* the inputs of a run: a bar to update, two rectangles to test, a counter
\* of Level6AI to step, or a holder and a state to request on it
UnitInputs ==
    {[op |-> "bar", hb |-> hb] : hb \in UnitBars}
        \cup {[op |-> "rects", a |-> a, b |-> b] : a \in UnitRects, b \in UnitRects}
        \cup {[op |-> "counter", c |-> c] : c \in 0..MaxBossCounter}
        \cup {[op |-> "request", at |-> at, new_state |-> n] :
                  at \in CallPoints, n \in States \cup {8}}

\* one call of health_bar_loop on the bar drawn, with an empty holder
UpdateBar ==
    /\ unit.op = "bar"
    /\ unit' = [op |-> "health_bar_loop", before |-> unit.hb,
                after |-> health_bar_loop(unit.hb, NewSpriteHolder(RegCap))]
    /\ UNCHANGED <<gso, levels, reg>>

\* the test of check_collision on rectangle a as the projectile and b as its
\* target, and with the two exchanged
TestOverlap ==
    /\ unit.op = "rects"
    /\ unit' = [op |-> "overlap", a |-> unit.a, b |-> unit.b,
                ab |-> Overlaps(unit.a[1], unit.a[2], unit.b[1], unit.b[2]),
                ba |-> Overlaps(unit.b[1], unit.b[2], unit.a[1], unit.a[2])]
    /\ UNCHANGED <<gso, levels, reg>>

\* the boss level as load_level_6 leaves it, with the counter of its AI at c
BossWith(c) ==
    [transition_to_state(BossGameplay, transition_to_state(Title2, InitialHolder))
        EXCEPT !.enemy.ai.cooldown = c, !.log = <<>>]

\* the counter and the number of projectiles in the collection
Count(g) == [cooldown |-> g.enemy.ai.cooldown, spawned |-> Len(g.projectiles)]

\* one call of the AI of the boss with its counter at the value drawn
StepBossAI ==
    /\ unit.op = "counter"
    /\ \E draw \in Draws(BossWith(unit.c).enemy.ai) :
          unit' = [op |-> "ai_loop", before |-> unit.c,
                   after |-> Count(ai_loop(BossWith(unit.c), draw.vs, draw.offs))]
    /\ UNCHANGED <<gso, levels, reg>>

\* one call of transition_to_state on the holder and with the state drawn
CallTransition ==
    /\ unit.op = "request"
    /\ unit' = [op |-> "transition", new_state |-> unit.new_state,
                before |-> Rest(CallPoint(unit.at)),
                after |-> Rest(transition_to_state(unit.new_state, CallPoint(unit.at)))]
    /\ UNCHANGED <<gso, levels, reg>>

(***************************************************************************)
(* The slots of a whole boss fight                                         *)
(***************************************************************************)
\* n calls of get_next_index, as the n calls of Enemy::spawn_new_projectile
\* of one AI step make them: the holder afterwards, the last index returned
\* and whether every call found an inactive slot
RECURSIVE AllocateN(_, _)
AllocateN(r, n) ==
    IF n = 0 THEN r
    ELSE AllocateN([holder |-> get_next_index(r.holder).sh,
                    held |-> r.held \cup {get_next_index(r.holder).index},
                    op |-> "allocate",
                    index |-> get_next_index(r.holder).index,
                    fresh |-> r.fresh /\ FirstInactive(r.holder) < r.holder.len,
                    sprite |-> Zeroed],
                   n - 1)

\* the boss level as load_level_6 leaves it: the holder with the slots of
\* start-up and of the level, the AI and the enemy's health
InitSlots ==
    /\ levels = SourceLevels
    /\ gso = InitialHolder
    /\ reg = [RegInit EXCEPT !.holder = Level6Loaded.sprite_holder,
                             !.held = Level6Loaded.sprite_holder.active]
    /\ unit = [op |-> "boss", ai |-> Level6Loaded.enemy.ai,
               health |-> Level6Loaded.enemy.enemy.health_bar.currval]

\* the allocations of one frame of the boss fight: the frame takes 1 from the
\* enemy's health and steps the AI, whose shots each take a slot.  No slot
\* is released: every projectile is kept to the end of the fight, the
\* longest the code lets any live (a sweep shot at angle pi has velocity
\* (-6, 0) and never reaches y < 0).  The player does not shoot: in state 6
\* no hit adds a charge.
BossFrameSlots ==
    /\ unit.op = "boss"
    /\ unit.health > 0
    /\ unit' = [unit EXCEPT !.ai = Level6AI_loop(@).ai, !.health = @ - 1]
    /\ reg' = AllocateN([reg EXCEPT !.fresh = TRUE], Level6AI_loop(unit.ai).shots)
    /\ UNCHANGED <<gso, levels>>

SpecSlots == InitSlots /\ [][BossFrameSlots]_vars

(***************************************************************************)
(* Specifications                                                          *)
(***************************************************************************)
Init ==
    /\ gso = InitialHolder
    /\ levels = SmallLevels
    /\ reg = RegInit
    /\ unit = UnitInit

InitSource ==
    /\ gso = InitialHolder
    /\ levels = SourceLevels
    /\ reg = RegInit
    /\ unit = UnitInit

\* one RedrawRequested event
Frame ==
    /\ \E keys \in SUBSET Keys : \E draw \in FrameDraws(gso) :
          gso' = redraw(gso, keys, draw)
    /\ gso'.player.charges <= MaxCharges
    /\ UNCHANGED <<levels, reg, unit>>

\* one RedrawRequested event, within the first MaxSourceFrames frames of a
\* gameplay session
FrameCapped ==
    /\ InGameplay(gso) => SessionFrames(gso) < MaxSourceFrames
    /\ Frame

\* transition_to_state called directly
Request(new_state) ==
    /\ gso' = transition_to_state(new_state, [gso EXCEPT !.log = <<>>])
    /\ UNCHANGED <<levels, reg, unit>>

Next == Frame

\* the targets requested directly: the states that end a session, which the
\* long play of the source's levels would request, and a value that names
\* no state
EndRequests == {GameOver, StageCleared, Win, BossGameOver, 8}

NextSource == FrameCapped \/ \E s \in EndRequests : Request(s)

NextRegistry ==
    \/ Allocate
    \/ \E i \in 0..(RegCap - 1) : Release(i)
    \/ \E i \in 0..(RegCap - 1) : \E s \in RegSprites : Write(i, s)

Spec == Init /\ [][Next]_vars

SpecSource == InitSource /\ [][NextSource]_vars

SpecRegistry == Init /\ [][NextRegistry]_vars

\* the boss fight BossStart frames after load_level_6, all projectiles of
\* the earlier frames gone
BossSession ==
    [transition_to_state(BossGameplay, transition_to_state(Title2, InitialHolder))
        EXCEPT !.enemy.ai.cooldown = BossStart,
               !.enemy.enemy.health_bar.currval = @ - BossStart,
               !.log = <<>>]

InitBoss ==
    /\ levels = SourceLevels
    /\ gso = BossSession
    /\ reg = RegInit
    /\ unit = UnitInit

\* one RedrawRequested event of the boss fight, up to frame BossEnd
FrameBoss ==
    /\ gso.game_state = BossGameplay
    /\ gso.enemy.ai.cooldown < BossEnd
    /\ Frame

SpecBoss == InitBoss /\ [][FrameBoss]_vars

InitUnits ==
    /\ gso = InitialHolder
    /\ levels = SmallLevels
    /\ reg = RegInit
    /\ unit \in UnitInputs

\* the first level as load_level_1 leaves it, entered from the title screen,
\* with a count of the frames played
InitIdle ==
    /\ levels = SourceLevels
    /\ gso = [transition_to_state(Gameplay, InitialHolder) EXCEPT !.log = <<>>]
    /\ reg = RegInit
    /\ unit = [op |-> "frames", n |-> 0]

\* one RedrawRequested event of the first level with no key held
FrameIdle ==
    /\ gso.game_state = Gameplay
    /\ unit.n < MaxIdleFrames
    /\ \E draw \in FrameDraws(gso) : gso' = redraw(gso, {}, draw)
    /\ unit' = [unit EXCEPT !.n = @ + 1]
    /\ UNCHANGED <<levels, reg>>

SpecIdle == InitIdle /\ [][FrameIdle]_vars

NextUnits == UpdateBar \/ TestOverlap \/ StepBossAI \/ CallTransition

SpecUnits == InitUnits /\ [][NextUnits]_vars

(***************************************************************************)
(* Properties                                                              *)
(***************************************************************************)
\* the events of the frame or request that led to the current state
LogOf(type) == {i \in DOMAIN gso.log : gso.log[i].type = type}

\* the (current, requested) pairs of the transition table
TransitionTable ==
    {<<Title, Gameplay>>, <<Title, Title2>>,
     <<Gameplay, GameOver>>, <<Gameplay, StageCleared>>, <<Gameplay, Win>>,
     <<GameOver, Gameplay>>, <<StageCleared, Gameplay>>,
     <<Title2, BossGameplay>>, <<Title2, Title>>,
     <<BossGameplay, BossGameOver>>, <<BossGameplay, StageCleared>>,
     <<BossGameplay, Win>>, <<BossGameOver, BossGameplay>>}

Requests == States \cup {8}

\* C1: in every reachable state and for every requested state,
\* transition_to_state changes the game state exactly when (current, requested)
\* is one of the thirteen pairs of the table, and then the state is the
\* requested one.
C1_TableDecidesTransition ==
    \A s \in Requests :
        LET after == transition_to_state(s, gso).game_state IN
        /\ (after # gso.game_state) <=> (<<gso.game_state, s>> \in TransitionTable)
        /\ (<<gso.game_state, s>> \in TransitionTable) => after = s

\* a transition of the table has been carried out from a boss fight
C1_Witness ==
    \E i \in LogOf("entered") :
        /\ gso.log[i].from = BossGameplay
        /\ gso.log[i].to = StageCleared
        /\ gso.game_state = StageCleared

\* C2: in every reachable state, a request outside the table is rejected: the
\* call reports it and the game-state tag after the call is the tag before.
C2_IllegalRequestRejected ==
    \A s \in Requests :
        (<<gso.game_state, s>> \notin TransitionTable) =>
            LET after == transition_to_state(s, [gso EXCEPT !.log = <<>>]) IN
            /\ after.game_state = gso.game_state
            /\ after.log = <<[type |-> "rejected", from |-> gso.game_state, to |-> s]>>

\* Win was requested on the title screen and refused
C2_Witness ==
    \E i \in LogOf("rejected") :
        /\ gso.log[i].from = Title
        /\ gso.log[i].to = Win
        /\ gso.game_state = Title

\* C3: when a damage of 1 during Gameplay takes the enemy's health from 1 to
\* 0, the pending transition becomes StageCleared and the frame ends in
\* StageCleared with the level's slots released.
C3_EnemyDownClearsStage ==
    \A i \in LogOf("enemy_damage") :
        (gso.log[i].index = Gameplay /\ gso.log[i].value = 0) =>
            /\ gso.log[i].flag = StageCleared
            /\ gso.game_state = StageCleared
            /\ gso.sprite_holder.active = 0..5

\* C4: a damage event that leaves the player's health at or below 0 sets the
\* pending transition to GameOver in Gameplay and to BossGameOver in
\* BossGameplay.
C4_PlayerDownSetsPending ==
    \A i \in LogOf("player_damage") :
        gso.log[i].value <= 0 =>
            /\ gso.log[i].index = Gameplay => gso.log[i].flag = GameOver
            /\ gso.log[i].index = BossGameplay => gso.log[i].flag = BossGameOver

\* the player's health was taken to 0 during Gameplay
C4_Witness ==
    \E i \in LogOf("player_damage") :
        /\ gso.log[i].value <= 0
        /\ gso.log[i].index = Gameplay
        /\ gso.log[i].flag = GameOver

\* the slot indices of the live owners, one entry per owner
OwnerIndices(g) ==
    <<g.background.sprite_index, g.title_screen.sprite_index,
      g.death_screen.sprite_index, g.win_screen.sprite_index,
      g.title_screen_2.sprite_index, g.cleared_screen.sprite_index>>
    \o (IF InGameplay(g)
        THEN <<g.player.sprite_index, g.enemy.enemy.sprite_index,
               g.enemy.enemy.sprite_index_eyes,
               g.enemy.enemy.health_bar.sprite_index_border,
               g.enemy.enemy.health_bar.sprite_index_bar,
               g.player_health_bar.sprite_index_border,
               g.player_health_bar.sprite_index_bar>>
             \o [k \in DOMAIN g.projectiles |-> g.projectiles[k].sprite_index]
        ELSE <<>>)

\* C5: after any sequence of frames the slot indices of the live owners (the
\* six screens and, in a gameplay state, the player, the enemy's body and
\* eyes, both bars' border and fill, and every projectile) are pairwise
\* distinct.
C5_OwnersHoldDistinctSlots ==
    LET held == OwnerIndices(gso) IN
    Cardinality({held[i] : i \in DOMAIN held}) = Len(held)

\* a level in play with projectiles of both sides in flight
C5_Witness ==
    /\ gso.game_state = Gameplay
    /\ \E k \in DOMAIN gso.projectiles : gso.projectiles[k].player_spawned
    /\ \E k \in DOMAIN gso.projectiles : ~gso.projectiles[k].player_spawned

\* C6: for every sequence of allocate and release calls, the index allocate
\* returns is marked active and was not returned by an earlier allocate
\* without a release since.
C6_AllocatedIndexIsFresh ==
    reg.op = "allocate" => (reg.index \in reg.holder.active /\ reg.fresh)

\* the slots that are active or hold a record other than the zeroed one
Slots(sh) == sh.active \cup DOMAIN sh.sprites

\* C7: release(i) clears the active flag of slot i and zeroes its record, and
\* in every reachable state every inactive slot holds the zeroed record.
C7_InactiveSlotsAreZeroed ==
    /\ \A i \in Slots(gso.sprite_holder) :
          i \notin gso.sprite_holder.active => SpriteAt(gso.sprite_holder, i) = Zeroed
    /\ \A i \in gso.sprite_holder.active :
          /\ i \notin remove_sprite(gso.sprite_holder, i).active
          /\ SpriteAt(remove_sprite(gso.sprite_holder, i), i) = Zeroed

\* a projectile that hit the player has had its slot released while the level
\* goes on
C7_Witness ==
    /\ gso.game_state = Gameplay
    /\ \E i \in LogOf("player_hit") :
          /\ gso.log[i].index \notin gso.sprite_holder.active
          /\ SpriteAt(gso.sprite_holder, gso.log[i].index) = Zeroed

\* the slots of the projectiles of g
ProjectileSlots(g) == {g.projectiles[k].sprite_index : k \in DOMAIN g.projectiles}

\* C8: at the end of every gameplay frame the collection holds no dead
\* projectile, and the slot of every projectile the frame removed from the
\* collection has been released.
C8_DeadProjectilesSwept ==
    [][InGameplay(gso) =>
          /\ \A k \in DOMAIN gso'.projectiles : ~gso'.projectiles[k].is_dead
          /\ \A i \in ProjectileSlots(gso) \ ProjectileSlots(gso') :
                i \notin gso'.sprite_holder.active]_vars

\* a projectile left the screen past the player and is gone from the
\* collection while others remain
C8_Witness ==
    /\ gso.game_state = Gameplay
    /\ gso.projectiles # <<>>
    /\ \E i \in LogOf("missed") : gso.log[i].index \notin ProjectileSlots(gso)

\* the slots of the player's projectiles of g
PlayerShotSlots(g) ==
    {g.projectiles[k].sprite_index :
        k \in {j \in DOMAIN g.projectiles : g.projectiles[j].player_spawned}}

\* the events of one type in a record of events
Events(log, type) == {i \in DOMAIN log : log[i].type = type}

\* C9 on one frame that starts in a gameplay state
ChargeRule ==
    LET hits == Cardinality(Events(gso'.log, "player_hit"))
        tried == Events(gso'.log, "shoot_key")
        shots == Events(gso'.log, "shot")
        calm == gso'.game_state = gso.game_state
        kept == IF shots # {} THEN 0 ELSE gso.player.charges
        new == PlayerShotSlots(gso') \ PlayerShotSlots(gso)
    IN  /\ gso'.player.charges <= kept + hits
        /\ calm => gso'.player.charges = kept + hits
        /\ tried = {} => (shots = {} /\ new = {})
        /\ (tried # {} /\ gso.player.charges >= ChargesPerShot) =>
              /\ Cardinality(shots) = 1
              /\ \A i \in shots :
                    /\ gso'.log[i].value = gso.player.charges
                    /\ gso'.log[i].flag = 0
                    /\ calm => new = {gso'.log[i].index}
        /\ (tried # {} /\ gso.player.charges < ChargesPerShot) =>
              (shots = {} /\ new = {})

\* C9: the charge counter rises only by 1 per enemy projectile that hits the
\* player; a shoot action with at least 3 charges spawns exactly one player
\* projectile and leaves the counter at 0; one with fewer than 3 spawns
\* nothing and leaves the counter as it was.
C9_ChargesAndShots == [][InGameplay(gso) => ChargeRule]_vars

\* a shot was fired and an enemy projectile hit the player in the same frame
C9_Witness ==
    /\ gso.game_state = Gameplay
    /\ LogOf("shot") # {}
    /\ LogOf("player_hit") # {}
    /\ gso.player.charges = 1
    /\ PlayerShotSlots(gso) # {}

\* the level as load_level_1 leaves it
FreshLevel1(g) ==
    /\ g.player.pos = <<PlayerStartX, PlayerStartY>>
    /\ g.player.charges = 0
    /\ g.player_health_bar.currval = 10 /\ g.player_health_bar.maxval = 10
    /\ g.enemy.enemy.health_bar.currval = 10 /\ g.enemy.enemy.health_bar.maxval = 10
    /\ g.enemy.ai.kind = "Level1AI" /\ g.enemy.ai.cooldown = 0
    /\ g.projectiles = <<>>

\* the level as load_level_6 leaves it
FreshLevel6(g) ==
    /\ g.player.charges = 0
    /\ g.player_health_bar.currval = 1 /\ g.player_health_bar.maxval = 1
    /\ g.enemy.enemy.health_bar.currval = 1800 /\ g.enemy.enemy.health_bar.maxval = 1800
    /\ g.enemy.ai.kind = "Level6AI" /\ g.enemy.ai.cooldown = 0
    /\ g.projectiles = <<>>

\* C10: every entry into Gameplay yields the player at its start position
\* with charge 0 and health 10 of 10, the enemy with health 10 of 10 and the
\* Level1AI with timer 0; every entry into BossGameplay yields charge 0,
\* player health 1 of 1, enemy health 1800 of 1800 and the Level6AI with
\* counter 0; either way the projectile collection is empty.
C10_EntryReinitializesLevel ==
    [][/\ (gso'.game_state = Gameplay /\ gso.game_state # Gameplay) => FreshLevel1(gso')
       /\ (gso'.game_state = BossGameplay /\ gso.game_state # BossGameplay) =>
             FreshLevel6(gso')]_vars

\* the boss level has been entered again from its death screen
C10_Witness ==
    /\ gso.game_state = BossGameplay
    /\ \E i \in LogOf("entered") : gso.log[i].from = BossGameOver
    /\ gso.enemy.enemy.health_bar.currval = 1800

\* the damage events of the frame that led to the current state
DamageEvents == LogOf("player_damage") \cup LogOf("enemy_damage")

\* C11: the pending-transition flag is set only by damage events of a
\* Gameplay or BossGameplay frame and is consumed by the transition check of
\* that frame: at the end of every frame the flag is 0, and a transition out
\* of a level was requested by a damage event of the same frame.
C11_FlagConsumedInFrame ==
    /\ gso.trans_flag = 0
    /\ \A i \in DamageEvents : gso.log[i].index \in {Gameplay, BossGameplay}
    /\ \A i \in LogOf("entered") :
          gso.log[i].from \in {Gameplay, BossGameplay} =>
             \E j \in DamageEvents :
                /\ j < i
                /\ gso.log[j].value <= 0
                /\ gso.log[j].flag = gso.log[i].to

\* a boss fight ended by a hit: the flag was set to 7 and consumed
C11_Witness ==
    /\ gso.game_state = BossGameOver
    /\ gso.trans_flag = 0
    /\ \E i \in LogOf("player_damage") : gso.log[i].flag = BossGameOver
    /\ \E i \in LogOf("entered") : gso.log[i].to = BossGameOver

\* the slots of the projectiles spawned in the frame that led to the
\* current state, by the AI step or by the player's shot
SpawnedSlots == {gso.log[i].index : i \in LogOf("spawn") \cup LogOf("shot")}

\* the projectiles spawned in that frame that are in the collection
SpawnedHere == {k \in DOMAIN gso.projectiles : gso.projectiles[k].sprite_index \in SpawnedSlots}

\* the height a projectile is spawned at
SpawnY(proj) == IF proj.player_spawned THEN PlayerStartY + EntitySize ELSE EnemyY

\* the slots of the projectiles the frame marked dead in its loop
KilledSlots ==
    {gso.log[i].index :
        i \in LogOf("missed") \cup LogOf("player_hit") \cup LogOf("enemy_hit")}

\* C12 as stated: a projectile spawned during a frame is not moved in that
\* frame, so at the end of the frame it is where it was spawned.
C12_SpawnedNotMovedInFrame ==
    \A k \in SpawnedHere : gso.projectiles[k].pos[2] = SpawnY(gso.projectiles[k])

\* C12 amended: a projectile spawned during a frame is moved once and
\* collision-tested in that same frame: at the end of the frame it is one
\* velocity away from where it was spawned and does not overlap its target,
\* or the loop of the frame has marked it dead.
C12_SpawnedUpdatedInFrame ==
    /\ \A k \in SpawnedHere :
          LET proj == gso.projectiles[k] IN
          /\ proj.pos[2] = SpawnY(proj) + proj.velocity[2]
          /\ proj.sprite.screen_region = <<proj.pos[1], proj.pos[2], proj.size[1], proj.size[2]>>
          /\ ~proj.player_spawned =>
                ~Overlaps(proj.pos, proj.size, gso.player.pos, gso.player.size)
          /\ proj.player_spawned =>
                ~Overlaps(proj.pos, proj.size, gso.enemy.enemy.pos, gso.enemy.enemy.size)
    /\ InGameplay(gso) =>
          \A i \in SpawnedSlots \ ProjectileSlots(gso) : i \in KilledSlots

\* the shot of this frame and the enemy's projectile of this frame are both
\* in flight, each one velocity away from its spawn height
C12_Witness ==
    /\ gso.game_state = Gameplay
    /\ \E k \in SpawnedHere :
          /\ gso.projectiles[k].player_spawned
          /\ gso.projectiles[k].pos[2] = PlayerStartY + EntitySize + PlayerShotSpeed
    /\ \E k \in SpawnedHere :
          /\ ~gso.projectiles[k].player_spawned
          /\ gso.projectiles[k].pos[2] = EnemyY - EnemyShotSpeed

\* the damage events of the frame that wrote the pending-transition flag
FlagWrites == {i \in DamageEvents : gso.log[i].value <= 0}

\* C13: within one gameplay frame all writes to the pending-transition flag
\* request the same target state.
C13_WritesRequestSameTarget ==
    \A i, j \in FlagWrites : gso.log[i].flag = gso.log[j].flag

\* C14 as stated: in Gameplay and in BossGameplay alike, a projectile that
\* is below y = 0 after its move is marked dead and costs the player 1 health.
C14_MissDamagesInEveryLevel ==
    \A i \in LogOf("missed") :
        /\ gso.log[i].flag = gso.log[i].value - 1
        /\ gso.log[i].index \notin ProjectileSlots(gso)

\* C14 amended: a projectile that is below y = 0 after its move is marked
\* dead (and swept with its slot released at the end of the frame); the
\* player's health goes down by 1 in Gameplay and stays as it is in
\* BossGameplay.
C14_MissDamagesInGameplayOnly ==
    \A i \in LogOf("missed") :
        /\ gso.log[i].state \in {Gameplay, BossGameplay}
        /\ gso.log[i].state = Gameplay => gso.log[i].flag = gso.log[i].value - 1
        /\ gso.log[i].state = BossGameplay => gso.log[i].flag = gso.log[i].value
        /\ gso.log[i].index \notin ProjectileSlots(gso)
        /\ gso.log[i].index \notin gso.sprite_holder.active

\* in a frame of the boss fight an enemy projectile left past y = 0 and was
\* swept, and no damage was dealt to the player in that frame
C14_Witness ==
    /\ LogOf("player_damage") = {}
    /\ \E i \in LogOf("missed") :
          /\ gso.log[i].state = BossGameplay
          /\ ~gso.log[i].player_spawned
          /\ gso.log[i].flag = gso.log[i].value
          /\ gso.log[i].index \notin gso.sprite_holder.active

\* C15: only enemy-spawned projectiles leave past y = 0: no projectile of the
\* player is ever missed, and every projectile of the player flies away from
\* y = 0, so none reduces the player's health.
C15_PlayerShotsNeverMissed ==
    /\ \A i \in LogOf("missed") : ~gso.log[i].player_spawned
    /\ \A k \in DOMAIN gso.projectiles :
          gso.projectiles[k].player_spawned =>
             /\ gso.projectiles[k].velocity[2] > 0
             /\ gso.projectiles[k].pos[2] >= 0

\* a shot of the player is in flight in a frame in which a missed enemy
\* projectile cost the player 1 health
C15_Witness ==
    /\ gso.game_state = Gameplay
    /\ PlayerShotSlots(gso) # {}
    /\ \E i \in LogOf("missed") :
          ~gso.log[i].player_spawned /\ gso.log[i].flag = gso.log[i].value - 1

\* the fill width <<numerator, denominator>> of a bar's sprite, as a fraction
\* of the bar's width
FillOf(sprite) == sprite.screen_region[3]

\* C16: after health_bar_loop, of the player's bar and of the enemy's, the
\* current value is between 0 and the maximum, so the fraction current/max is
\* in [0,1]; the fill width is the bar's width times current/max, in the
\* bar's own sprite and in its slot of the holder; a negative current value
\* has become 0.
C16_FillFractionInUnitRange ==
    unit.op = "health_bar_loop" =>
        LET hb == unit.after.hb
            sh == unit.after.sh
        IN  /\ 0 <= hb.currval /\ hb.currval <= hb.maxval
            /\ hb.currval = (IF unit.before.currval < 0 THEN 0 ELSE unit.before.currval)
            /\ FillOf(hb.sprite_bar) = <<hb.bar_pos[3] * hb.currval, hb.maxval>>
            /\ 0 <= FillOf(hb.sprite_bar)[1]
            /\ FillOf(hb.sprite_bar)[1] <= hb.bar_pos[3] * FillOf(hb.sprite_bar)[2]
            /\ SpriteAt(sh, hb.sprite_index_bar) = hb.sprite_bar
            /\ SpriteAt(sh, hb.sprite_index_border).screen_region = hb.bar_pos

\* the enemy's bar was updated with a negative current value and shows an
\* empty fill
C16_Witness ==
    /\ unit.op = "health_bar_loop"
    /\ unit.before.currval < 0
    /\ unit.before.bar_pos[2] = 600
    /\ unit.after.hb.currval = 0
    /\ FillOf(unit.after.hb.sprite_bar)[1] = 0

\* the closed intervals [lo1, hi1] and [lo2, hi2] meet
Meet(lo1, hi1, lo2, hi2) == \E x \in 0..(MaxCoord + MaxSide + 1) :
                                lo1 <= x /\ x <= hi1 /\ lo2 <= x /\ x <= hi2

\* C17: the test gives the same answer with the two rectangles exchanged,
\* and it is true exactly when the closed rectangles share a point, so
\* rectangles that only touch along an edge collide.
C17_OverlapSymmetricInclusive ==
    unit.op = "overlap" =>
        /\ unit.ab = unit.ba
        /\ unit.ab = (/\ Meet(unit.a[1][1], unit.a[1][1] + unit.a[2][1],
                              unit.b[1][1], unit.b[1][1] + unit.b[2][1])
                      /\ Meet(unit.a[1][2], unit.a[1][2] + unit.a[2][2],
                              unit.b[1][2], unit.b[1][2] + unit.b[2][2]))

\* b starts where a ends, on the right of it and then below it, and both
\* orders of the test say they collide
C17_Witness ==
    /\ unit.op = "overlap"
    /\ unit.a[1][2] + unit.a[2][2] = unit.b[1][2]
    /\ unit.a[1][1] = unit.b[1][1]
    /\ unit.ab /\ unit.ba

\* the projectiles spawned in the frame, in the order of their spawning
SpawnedInOrder ==
    [n \in 1..Cardinality(LogOf("spawn")) |->
        CHOOSE i \in LogOf("spawn") : Cardinality({j \in LogOf("spawn") : j <= i}) = n]

VelocityOfSlot(slot) ==
    LET k == CHOOSE k \in DOMAIN gso.projectiles : gso.projectiles[k].sprite_index = slot
    IN  gso.projectiles[k].velocity

\* C18 as stated: the step that brings the counter of Level6AI to 650 spawns
\* exactly 3 projectiles.
C18_FanAt650 ==
    (gso.game_state = BossGameplay /\ gso.enemy.ai.cooldown = 650) =>
        Cardinality(LogOf("spawn")) = 3

\* C18 amended: a step that brings the counter to a value in 601..1200 spawns
\* exactly 3 projectiles when the value is a multiple of 30 (660, not 650)
\* and none otherwise; the three fly at a base angle of [9pi/8, 11pi/8], at
\* the base + pi/4 and at the base + pi/2.
C18_FanEvery30 ==
    (/\ gso.game_state = BossGameplay
     /\ gso.enemy.ai.cooldown > BossStart
     /\ gso.enemy.ai.cooldown > 600 /\ gso.enemy.ai.cooldown <= 1200) =>
        IF gso.enemy.ai.cooldown % 30 = 0
        THEN /\ Cardinality(LogOf("spawn")) = 3
             /\ \E b \in FanBases :
                   /\ VelocityOfSlot(gso.log[SpawnedInOrder[1]].index) = Dir(b)
                   /\ VelocityOfSlot(gso.log[SpawnedInOrder[2]].index) = Dir(b + 2)
                   /\ VelocityOfSlot(gso.log[SpawnedInOrder[3]].index) = Dir(b + 4)
        ELSE LogOf("spawn") = {}

\* the step to 660 has spawned a fan of three
C18_Witness ==
    /\ gso.game_state = BossGameplay
    /\ gso.enemy.ai.cooldown = 660
    /\ Cardinality(LogOf("spawn")) = 3
    /\ Cardinality(ProjectileSlots(gso)) = 3

\* the indices of a holder and the records of all its slots but one
IndicesOf(sh) == 0..(sh.len - 1)

OtherRecordsKept(old, new, i) ==
    \A j \in IndicesOf(old) \ {i} : SpriteAt(new, j) = SpriteAt(old, j)

\* C19: when a slot is inactive, get_next_index returns the lowest inactive
\* index, sets the flag of that slot and of no other, and leaves every record
\* as it was.
C19_AllocateLowestInactive ==
    [][(reg'.op = "allocate" /\ IndicesOf(reg.holder) \ reg.holder.active # {}) =>
          /\ reg'.index \in IndicesOf(reg.holder) \ reg.holder.active
          /\ \A j \in 0..(reg'.index - 1) : j \in reg.holder.active
          /\ reg'.holder.active = reg.holder.active \cup {reg'.index}
          /\ reg'.holder.len = reg.holder.len
          /\ \A j \in IndicesOf(reg.holder) :
                SpriteAt(reg'.holder, j) = SpriteAt(reg.holder, j)]_vars

\* slot 1 was returned while slots 1 and 2 were inactive and slot 0 held a
\* record
C19_Witness ==
    /\ reg.op = "allocate"
    /\ reg.index = 1
    /\ reg.holder.active = {0, 1, 3}
    /\ SpriteAt(reg.holder, 0) # Zeroed

\* C20 as stated: set_sprite replaces the record of the slot and leaves the
\* flag of every slot, the slot written included, as it was.
C20_WriteKeepsEveryFlag ==
    [][reg'.op = "write" =>
          /\ SpriteAt(reg'.holder, reg'.index) = reg'.sprite
          /\ reg'.holder.active = reg.holder.active]_vars

\* C20 amended: set_sprite replaces the record of the slot and sets the flag
\* of that slot, which changes it when the slot was inactive; the flag and
\* the record of every other slot stay as they were.
C20_WriteActivatesItsSlot ==
    [][reg'.op = "write" =>
          /\ SpriteAt(reg'.holder, reg'.index) = reg'.sprite
          /\ reg'.holder.active = reg.holder.active \cup {reg'.index}
          /\ reg'.holder.len = reg.holder.len
          /\ OtherRecordsKept(reg.holder, reg'.holder, reg'.index)]_vars

\* a record was written to a slot that no allocation had returned, and the
\* slot is active
C20_Witness ==
    /\ reg.op = "write"
    /\ reg.held = {}
    /\ reg.sprite # Zeroed
    /\ SpriteAt(reg.holder, reg.index) = reg.sprite
    /\ reg.holder.active = {reg.index}

\* C21: get_next_index called with every slot active returns 0 and leaves
\* the holder, flags and records, as it was; slot 0 stays active, and when an
\* earlier allocation returned 0 and it was not released since, the caller
\* now shares slot 0 with that owner.
C21_ExhaustedAllocateReturnsZero ==
    [][(reg'.op = "allocate" /\ IndicesOf(reg.holder) \subseteq reg.holder.active) =>
          /\ reg'.index = 0
          /\ reg'.holder = reg.holder
          /\ 0 \in reg'.holder.active
          /\ reg'.held = reg.held \cup {0}
          /\ (0 \in reg.held => ~reg'.fresh)]_vars

\* with every slot active and held, an allocation returned slot 0 again
C21_Witness ==
    /\ reg.op = "allocate"
    /\ reg.index = 0
    /\ ~reg.fresh
    /\ IndicesOf(reg.holder) \subseteq reg.holder.active
    /\ reg.held = IndicesOf(reg.holder)

\* the calls of transition_to_state in the frame that led to the current state
TransitionCalls == LogOf("entered") \cup LogOf("rejected")

\* C22: a frame calls transition_to_state at most once; the state of the
\* game after the frame differs from the state before it exactly when that
\* call carried a transition out, from the state before to the state after,
\* along a pair of the table; a frame without such a call leaves it as it was.
C22_TagChangedByTransitionOnly ==
    [][/\ Cardinality(TransitionCalls') <= 1
       /\ \A i \in LogOf("entered")' :
             /\ gso'.log[i].from = gso.game_state
             /\ gso'.log[i].to = gso'.game_state
             /\ <<gso.game_state, gso'.game_state>> \in TransitionTable
       /\ (LogOf("entered")' = {}) => gso'.game_state = gso.game_state
       /\ (gso'.game_state # gso.game_state) =>
             /\ LogOf("entered")' # {}
             /\ <<gso.game_state, gso'.game_state>> \in TransitionTable]_vars

\* the player died in the boss fight: the one call of the frame took the
\* game from BossGameplay to BossGameOver
C22_Witness ==
    /\ gso.game_state = BossGameOver
    /\ Cardinality(TransitionCalls) = 1
    /\ \E i \in LogOf("entered") :
          gso.log[i].from = BossGameplay /\ gso.log[i].to = BossGameOver
    /\ gso.input = {}

\* C23: from Win every step leads to Win: a frame, whatever keys are held,
\* and a request of any state, which is rejected; no transition is carried
\* out.
C23_WinIsAbsorbing ==
    [][gso.game_state = Win =>
          /\ gso'.game_state = Win
          /\ LogOf("entered")' = {}]_vars

\* the game is at Win after a frame spent there with Left held
C23_Witness ==
    /\ gso.game_state = Win
    /\ gso.log = <<>>
    /\ "Left" \in gso.input
    /\ gso.win_screen.sprite.screen_region = Shown

\* the change a record of before and after shows
Delta(pair) == pair[2] - pair[1]

\* the target of a projectile does not overlap it
ClearOfTarget(proj) ==
    IF proj.player_spawned
    THEN ~Overlaps(proj.pos, proj.size, gso.enemy.enemy.pos, gso.enemy.enemy.size)
    ELSE ~Overlaps(proj.pos, proj.size, gso.player.pos, gso.player.size)

\* C24: a projectile that overlaps its target in check_collision is marked
\* dead and has one effect: an enemy projectile on the player gives 1 charge
\* in Gameplay and takes 1 health in BossGameplay, a player projectile on the
\* enemy takes 1 enemy health, and nothing else of charges and health changes;
\* a projectile still in the collection while the game goes on is clear of
\* its target.
C24_HitHasOneEffect ==
    /\ \A i \in LogOf("collision") :
          LET e == gso.log[i] IN
          /\ e.is_dead
          /\ e.state \in {Gameplay, BossGameplay}
          /\ (~e.player_spawned /\ e.state = Gameplay) =>
                /\ Delta(e.charges) = 1
                /\ Delta(e.player_health) = 0 /\ Delta(e.enemy_health) = 0
          /\ (~e.player_spawned /\ e.state = BossGameplay) =>
                /\ Delta(e.player_health) = -1
                /\ Delta(e.charges) = 0 /\ Delta(e.enemy_health) = 0
          /\ e.player_spawned =>
                /\ Delta(e.enemy_health) = -1
                /\ Delta(e.charges) = 0 /\ Delta(e.player_health) = 0
    /\ InGameplay(gso) =>
          \A k \in DOMAIN gso.projectiles : ClearOfTarget(gso.projectiles[k])

\* in a frame of the boss fight an enemy projectile met the player and took
\* 1 health
C24_Witness ==
    \E i \in LogOf("collision") :
        /\ gso.log[i].state = BossGameplay
        /\ ~gso.log[i].player_spawned
        /\ gso.log[i].is_dead
        /\ Delta(gso.log[i].player_health) = -1

\* C25: a step of Level1AI with a positive timer takes 1 from it and spawns
\* nothing, a step with timer 0 sets it to max_cooldown and spawns exactly
\* one projectile; from load_level_1 (timer 0, period 40) the frames that
\* spawn are the first and then every 41st: frames 1, 42, 83.
C25_PeriodicSingleShot ==
    [][/\ gso.enemy.ai.kind = "Level1AI" /\ gso'.enemy.ai.kind = "Level1AI"
       /\ gso.enemy.ai.max_cooldown = 40
       /\ gso.enemy.ai.cooldown > 0 =>
             /\ gso'.enemy.ai.cooldown = gso.enemy.ai.cooldown - 1
             /\ LogOf("spawn")' = {}
       /\ gso.enemy.ai.cooldown = 0 =>
             /\ gso'.enemy.ai.cooldown = gso.enemy.ai.max_cooldown
             /\ Cardinality(LogOf("spawn")') = 1
       /\ (LogOf("spawn")' # {}) <=> (unit.n % 41 = 0)]_vars

\* the 42nd frame of the level has spawned the second projectile
C25_Witness ==
    /\ unit.op = "frames"
    /\ unit.n = 42
    /\ Cardinality(LogOf("spawn")) = 1
    /\ gso.enemy.ai.cooldown = 40

\* the phases of the boss, as ranges of its counter
Phase1(c) == 0 < c /\ c <= 600
Phase2(c) == 600 < c /\ c <= 1200
Phase3(c) == 1200 < c /\ c <= 1800

\* the number of projectiles the table of C26 gives for the new counter c
FanTable(c) ==
    CASE Phase1(c) -> IF c % 100 < 55 THEN 1 ELSE 0
      [] Phase2(c) -> IF c % 30 = 0 THEN 3 ELSE 0
      [] Phase3(c) -> IF c % 20 < 3 THEN 1 ELSE 0
      [] OTHER -> 0

\* C26: a step of Level6AI adds exactly 1 to its counter and spawns the
\* number of projectiles the table gives for the new value, none beyond 1800;
\* no value is in two phases.
C26_BossShotsByCounter ==
    unit.op = "ai_loop" =>
        /\ unit.after.cooldown = unit.before + 1
        /\ unit.after.spawned = FanTable(unit.after.cooldown)
        /\ unit.after.cooldown > 1800 => unit.after.spawned = 0
        /\ ~(Phase1(unit.after.cooldown) /\ Phase2(unit.after.cooldown))
        /\ ~(Phase2(unit.after.cooldown) /\ Phase3(unit.after.cooldown))
        /\ ~(Phase1(unit.after.cooldown) /\ Phase3(unit.after.cooldown))

\* the step to 1801, where 1801 % 20 < 3, has spawned nothing
C26_Witness ==
    /\ unit.op = "ai_loop"
    /\ unit.after.cooldown = 1801
    /\ unit.after.spawned = 0

\* the slots run() allocates for the background and the five screens
ScreenSlots == InitialHolder.sprite_holder.active

\* C27: the six slots allocated at start-up are active in every state; in
\* every state outside Gameplay and BossGameplay, so right after each
\* transition out of them and after each later frame, the projectile
\* collection is empty and no other slot is active.
C27_TeardownLeavesScreenSlots ==
    /\ Cardinality(ScreenSlots) = 6
    /\ ScreenSlots \subseteq gso.sprite_holder.active
    /\ {gso.background.sprite_index, gso.title_screen.sprite_index,
        gso.death_screen.sprite_index, gso.win_screen.sprite_index,
        gso.title_screen_2.sprite_index, gso.cleared_screen.sprite_index} = ScreenSlots
    /\ ~InGameplay(gso) =>
          /\ gso.projectiles = <<>>
          /\ gso.sprite_holder.active = ScreenSlots

\* the frame that ended the level had spawned a projectile that was still
\* alive at the teardown
C27_Witness ==
    /\ gso.game_state = GameOver
    /\ \E i \in LogOf("entered") : gso.log[i].from = Gameplay
    /\ SpawnedSlots \ KilledSlots # {}
    /\ gso.projectiles = <<>>
    /\ gso.sprite_holder.active = ScreenSlots

\* a call of transition_to_state with a pair outside the table has been made
RejectedCall ==
    /\ unit.op = "transition"
    /\ <<unit.before.game_state, unit.new_state>> \notin TransitionTable

\* C28 as stated: a rejected request leaves the holder as it was, the state
\* of the game, trans_flag, the player, the enemy, the health bars, the
\* projectiles and the sprite holder, in every state.
C28_RejectedChangesNothing ==
    RejectedCall => unit.after = unit.before

\* C28 amended: a rejected request leaves the holder as it was but for
\* trans_flag, which is 0 afterwards when the state is Gameplay or
\* BossGameplay (`gso.trans_flag.val = 0` comes before the match on
\* new_state) and is unchanged in every other state.
C28_RejectedResetsPendingOnly ==
    RejectedCall =>
        /\ unit.after = [unit.before EXCEPT !.trans_flag = unit.after.trans_flag]
        /\ unit.after.trans_flag =
              (IF InGameplay(unit.before) THEN 0 ELSE unit.before.trans_flag)

\* BossGameOver was requested in Gameplay while GameOver was pending: the
\* request was rejected and the pending value is gone
C28_Witness ==
    /\ RejectedCall
    /\ unit.before.game_state = Gameplay
    /\ unit.before.trans_flag = GameOver
    /\ unit.new_state = BossGameOver
    /\ unit.after.game_state = Gameplay
    /\ unit.after.trans_flag = 0

C30_IdlePlayerStaysPut ==
    [][(/\ InGameplay(gso)
        /\ gso'.game_state = gso.game_state
        /\ LogOf("entered")' = {}
        /\ gso'.input \cap {"Left", "Right"} = {})
          => gso'.player.pos = gso.player.pos]_vars

\* the length of the boss fight in frames: the enemy's health in the level
\* data of the boss level (1800 in load_level_6)
BossFrames == levels.l6.enemy_health

\* what a frame that starts in BossGameplay does, whatever keys are held: the
\* enemy loses exactly 1 health, the frame is one of the first BossFrames
\* frames of the session, the session goes on when the player was not hit
\* and frames remain, and ends in Win exactly in frame BossFrames with the
\* player not hit
BossFrameRule ==
    gso.game_state = BossGameplay =>
       /\ Cardinality(LogOf("enemy_damage")') = 1
       /\ \A i \in LogOf("enemy_damage")' :
             gso'.log[i].value = gso.enemy.enemy.health_bar.currval - 1
       /\ gso.enemy.ai.cooldown + 1 <= BossFrames
       /\ gso.enemy.enemy.health_bar.currval + gso.enemy.ai.cooldown = BossFrames
       /\ gso'.game_state \in {BossGameplay, Win, BossGameOver}
       /\ gso'.game_state = BossGameplay <=>
             (LogOf("player_damage")' = {} /\ gso.enemy.ai.cooldown + 1 < BossFrames)
       /\ gso'.game_state = Win <=>
             (LogOf("player_damage")' = {} /\ gso.enemy.ai.cooldown + 1 = BossFrames)

\* the counter of the boss AI is at most BossFrames
BossCounterCapped ==
    gso.enemy.ai.kind = "Level6AI" => gso.enemy.ai.cooldown <= BossFrames

MovesOn(g) ==
    IF InGameplay(g)
    THEN {watch_flag(Rest(g)).game_state}
    ELSE {dispatch(Rest(g), keys, draw).game_state :
             keys \in SUBSET Keys, draw \in FrameDraws(g)}

\* the moves from state to state that the frames make
FrameMoves ==
    UNION {{<<CallPoint(at).game_state, to>> : to \in MovesOn(CallPoint(at))} :
              at \in CallPoints}

\* the states a set of states leads to by moves of FrameMoves, itself included
RECURSIVE ReachedFrom(_)
ReachedFrom(S) ==
    LET T == S \cup {m[2] : m \in {n \in FrameMoves : n[1] \in S}} IN
    IF T = S THEN S ELSE ReachedFrom(T)

\* no frame changes the state of the game but by a move of FrameMoves
FramesFollowMoves ==
    gso'.game_state # gso.game_state =>
        <<gso.game_state, gso'.game_state>> \in FrameMoves

\* C32: each of the eight states is reached by some sequence of frames and
\* inputs starting from Title: the frames change the state by the moves of
\* FrameMoves only, and these moves lead from Title to every state.
C32_EveryStateReached ==
    [][/\ FramesFollowMoves
       /\ \A s \in States : s \in ReachedFrom({Title})]_vars

\* C33: every pending transition a gameplay frame raises is a legal target
\* from the state it was raised in, and the transition check at the end of
\* the frame carries it out: no call of a frame is rejected.
C33_PendingIsLegal ==
    /\ LogOf("rejected") = {}
    /\ \A i \in FlagWrites :
          /\ gso.log[i].index \in {Gameplay, BossGameplay}
          /\ <<gso.log[i].index, gso.log[i].flag>> \in TransitionTable
    /\ FlagWrites # {} =>
          \E j \in LogOf("entered") :
             /\ \A i \in FlagWrites : i < j /\ gso.log[i].index = gso.log[j].from
             /\ \E i \in FlagWrites : gso.log[i].flag = gso.log[j].to

\* a Gameplay frame took the player's last health: GameOver was raised and
\* the frame ended there
C33_Witness ==
    /\ gso.game_state = GameOver
    /\ \E i \in LogOf("player_damage") :
          /\ gso.log[i].index = Gameplay
          /\ gso.log[i].value = 0
          /\ gso.log[i].flag = GameOver
    /\ \E j \in LogOf("entered") : gso.log[j].from = Gameplay /\ gso.log[j].to = GameOver

\* C34: every write of a record to a slot is to a slot that is active at
\* that moment: no write has turned an inactive slot active, and the active
\* slots are those the screens, the level in play and the projectiles hold.
C34_WritesGoToActiveSlots ==
    /\ gso.sprite_holder.revived = {}
    /\ gso.sprite_holder.active =
          {OwnerIndices(gso)[i] : i \in DOMAIN OwnerIndices(gso)}

\* a frame of a level wrote the slot of a projectile that hit the player,
\* then released it, and wrote the slots of the player and of a projectile
\* still in flight
C34_Witness ==
    /\ gso.game_state = Gameplay
    /\ \E i \in LogOf("collision") :
          /\ gso.log[i].is_dead
          /\ gso.log[i].index \notin gso.sprite_holder.active
    /\ gso.projectiles # <<>>
    /\ ProjectileSlots(gso) \subseteq gso.sprite_holder.active
    /\ gso.player.sprite_index \in gso.sprite_holder.active

\* C35: at the end of every frame, in every state, the health of the player
\* and the health of the enemy are above 0 and at most their maximum; a
\* frame in which a health reached 0 or less ended with a transition out of
\* the level, which built both bars anew.
C35_HealthAboveZeroAfterFrame ==
    /\ 0 < gso.player_health_bar.currval
    /\ gso.player_health_bar.currval <= gso.player_health_bar.maxval
    /\ 0 < gso.enemy.enemy.health_bar.currval
    /\ gso.enemy.enemy.health_bar.currval <= gso.enemy.enemy.health_bar.maxval
    /\ FlagWrites # {} =>
          /\ ~InGameplay(gso)
          /\ \E j \in LogOf("entered") : gso.log[j].from \in {Gameplay, BossGameplay}
          /\ gso.player_health_bar.currval = gso.player_health_bar.maxval
          /\ gso.enemy.enemy.health_bar.currval = gso.enemy.enemy.health_bar.maxval

\* the enemy of the first level lost its last health in a frame that started
\* with the player already damaged: the frame ended in Win with both bars
\* full
C35_Witness ==
    /\ gso.game_state = Win
    /\ \E i \in LogOf("enemy_damage") :
          gso.log[i].index = Gameplay /\ gso.log[i].value = 0
    /\ \E i \in LogOf("collision") :
          /\ gso.log[i].player_spawned
          /\ gso.log[i].player_health[1] < levels.l1.player_health
    /\ gso.player_health_bar.currval = gso.player_health_bar.maxval
    /\ gso.enemy.enemy.health_bar.currval = gso.enemy.enemy.health_bar.maxval

\* the events of the frame in which a projectile had an effect: it left past
\* y = 0 or it met its target
EffectEvents == LogOf("missed") \cup LogOf("collision")

\* C36: a projectile has at most one effect over its lifetime: within a
\* frame no projectile both leaves past y = 0 and meets its target, or meets
\* it twice; a projectile the position step killed does not meet its target
\* in the collision step; and a projectile that had its effect is gone from
\* the collection when the frame ends, so it has none in a later frame.
C36_OneEffectPerProjectile ==
    /\ \A i, j \in EffectEvents :
          i # j => gso.log[i].index # gso.log[j].index
    /\ \A i \in LogOf("collision") :
          ~gso.log[i].was_dead /\ gso.log[i].is_dead
    /\ \A i \in EffectEvents : gso.log[i].index \notin ProjectileSlots(gso)

\* in one frame of the first level an enemy projectile met the player and
\* was swept while a projectile of the player stays in flight
C36_Witness ==
    /\ gso.game_state = Gameplay
    /\ \E i \in LogOf("collision") :
          /\ ~gso.log[i].player_spawned
          /\ Delta(gso.log[i].charges) = 1
          /\ gso.log[i].index \notin ProjectileSlots(gso)
    /\ \E k \in DOMAIN gso.projectiles : gso.projectiles[k].player_spawned

\* C37: throughout BossGameplay the player has no charge and no projectile
\* of the player is in the collection; in a frame of the boss fight no shot
\* is fired and nothing met the enemy, whose health changes by nothing but
\* the frame's damage of 1.
C37_NoPlayerShotInBossFight ==
    /\ gso.game_state = BossGameplay =>
          /\ gso.player.charges = 0
          /\ PlayerShotSlots(gso) = {}
    /\ \A i \in LogOf("enemy_damage") :
          gso.log[i].index = BossGameplay =>
             /\ Cardinality(LogOf("enemy_damage")) = 1
             /\ LogOf("shot") = {}
             /\ LogOf("enemy_hit") = {}
             /\ \A j \in LogOf("collision") :
                   /\ ~gso.log[j].player_spawned
                   /\ Delta(gso.log[j].charges) = 0
                   /\ Delta(gso.log[j].enemy_health) = 0

\* the boss fight goes on after a frame in which Space was held: the enemy
\* lost 1 health and no shot was fired
C37_Witness ==
    /\ gso.game_state = BossGameplay
    /\ \E i \in LogOf("shoot_key") : gso.log[i].value = 0
    /\ \E i \in LogOf("enemy_damage") :
          gso.log[i].value = gso.enemy.enemy.health_bar.currval
    /\ gso.enemy.enemy.health_bar.currval < gso.enemy.enemy.health_bar.maxval - 1
    /\ gso.projectiles # <<>>

\* the enemy projectiles that met the player in a frame of the boss fight
BossHits ==
    {i \in LogOf("collision") :
        ~gso.log[i].player_spawned /\ gso.log[i].state = BossGameplay}

\* C38: a frame of the boss fight in which an enemy projectile overlaps the
\* player takes the player's health and ends in BossGameOver, whether or not
\* the enemy's health reached 0 in the same frame; while the fight goes on
\* no enemy projectile overlaps the player.
C38_HitEndsBossFightInDefeat ==
    /\ BossHits # {} =>
          /\ gso.game_state = BossGameOver
          /\ \E j \in LogOf("entered") :
                gso.log[j].from = BossGameplay /\ gso.log[j].to = BossGameOver
          /\ \A i \in BossHits : Delta(gso.log[i].player_health) = -1
    /\ gso.game_state = BossGameplay =>
          \A k \in DOMAIN gso.projectiles : ClearOfTarget(gso.projectiles[k])

\* the last frame of the boss fight took the enemy's health to 0 and an
\* enemy projectile met the player in it: the game is at BossGameOver
C38_Witness ==
    /\ gso.game_state = BossGameOver
    /\ BossHits # {}
    /\ \E i \in LogOf("enemy_damage") : gso.log[i].value = 0 /\ gso.log[i].flag = Win

====
